---------------------------- MODULE Spec2Model ----------------------------
(***************************************************************************)
(* A model of the caching library: the in-memory entry store               *)
(* (storage/storage.go), the LRU / FIFO / LIFO eviction policies           *)
(* (eviction/*.go) and the cache coordinator (cache/cache.go).             *)
(*                                                                         *)
(* Time is a discrete clock `now`; durations are small integers.  A Go map *)
(* is a function whose DOMAIN is the set of stored keys; a container/list  *)
(* is a sequence whose element 1 is the list's Front.                      *)
(***************************************************************************)
EXTENDS Integers, Sequences, FiniteSets, TLC

(***************************************************************************)
(* Bounds of the model.                                                    *)
(***************************************************************************)
MaxTime == 2
MaxCount == 1
MaxClock == 5

Keys == {"a", "b", "c", "d"}
Keys3 == {"a", "b", "c"}
Keys2 == {"a", "b"}
Values == {1, 2}
TTLs == {-1, 0, 1, 2}
ShortTTLs == {-1, 0, 1}
BatchLens == {1, 2}
Kinds == {"LRU", "FIFO", "LIFO"}
Threads == {"t1", "t2"}

DefaultCapacity == 100
ZeroValue == 0
ZeroTime == 0
NoKey == "none"
NoWrite == [live |-> FALSE, value |-> ZeroValue, at |-> 0, ttl |-> 0]
Idle == [pc |-> "idle", op |-> "none", key |-> NoKey, ref |-> "nil", value |-> ZeroValue]
NoBatch == [op |-> "none", keys |-> << >>, vals |-> << >>, i |-> 0, n |-> 0,
            res |-> << >>, victims |-> << >>]
Routines == Threads \cup {"sweeper"}
Unlocked == [readers |-> {}, waiting |-> {}, writer |-> "none", pending |-> "none"]
NoRun == [op |-> "none", key |-> NoKey, ttl |-> 0, todo |-> << >>, found |-> FALSE,
          n |-> 0, victim |-> NoKey]

VARIABLES
    kind,        \* which built-in policy the cache was built with
    capacity,    \* cache.capacity
    defaultTTL,  \* cache.defaultTTL
    maxTTL,      \* cache.maxTTL
    threadSafe,  \* cache.threadSafe
    data,        \* memoryStorage.data : key -> Item
    order,       \* policy.order (policy.items is the set of its elements)
    hits,        \* cache.hits
    misses,      \* cache.misses
    evictions,   \* cache.evictions
    now,         \* time.Now()
    closed,      \* stopCleanup has been closed
    last,        \* the operation that completed last: its inputs and what it returned
    written,     \* history: per key, the latest write still in force
    usedAt,      \* history: per key, when it was last set or hit (0: never)
    bornAt,      \* history: per key, when it was inserted (0: not inserted)
    clock,       \* history: the number of accesses recorded so far
    replaced,    \* history: the last operation was a set of a stored, unexpired key
    th,          \* per thread: where it is inside a read-locked operation
    calls,       \* history: the get calls that returned found / not found
    before,      \* history: an earlier operation, kept by the observers
    sweeper,     \* the goroutine of startCleanup: where it is
    batch,       \* the batch operation in flight, its lock held
    mu,          \* the mutexes cache.mu ("c"), memoryStorage.mu ("s"), policy.mu ("p")
    run          \* per goroutine: the operation it is in and the calls it has yet to make

config == <<kind, capacity, defaultTTL, maxTTL, threadSafe>>
cache == <<data, order, hits, misses, evictions, now, closed, last>>
history == <<written, usedAt, bornAt, clock, replaced>>
routines == <<mu, run>>
tasks == <<sweeper, batch, routines>>
vars == <<config, cache, history, th, calls, before, tasks>>

(***************************************************************************)
(* Sequences and maps.                                                     *)
(***************************************************************************)
Range(s) == {s[i] : i \in 1..Len(s)}

SeqRemove(s, k) == SelectSeq(s, LAMBDA x : x # k)

MapDelete(d, k) == [x \in DOMAIN d \ {k} |-> d[x]]

MapPut(d, k, item) == [x \in DOMAIN d \cup {k} |-> IF x = k THEN item ELSE d[x]]

EmptyMap == [x \in {} |-> 0]

(***************************************************************************)
(* storage.Item                                                            *)
(***************************************************************************)
ZeroItem == [Value |-> ZeroValue, ExpiresAt |-> ZeroTime, HasTTL |-> FALSE]

\* a faulty IsExpired: the entry is gone at its deadline already
IsExpiredAtDeadline(item, t) == item.HasTTL /\ t >= item.ExpiresAt

IsExpired(item, t) == item.HasTTL /\ t > item.ExpiresAt

\* a faulty SetTTL: only a positive TTL gives a deadline
SetTTLPositiveOnly(item, ttl, t) ==
    IF ttl > 0
    THEN [item EXCEPT !.ExpiresAt = t + ttl, !.HasTTL = TRUE]
    ELSE [item EXCEPT !.HasTTL = FALSE]

SetTTL(item, ttl, t) ==
    IF ttl # 0
    THEN [item EXCEPT !.ExpiresAt = t + ttl, !.HasTTL = TRUE]
    ELSE [item EXCEPT !.HasTTL = FALSE]

(***************************************************************************)
(* memoryStorage: each operator returns the map after the call and what    *)
(* the call returned.                                                      *)
(***************************************************************************)
\* a faulty Get: an expired entry is reported as absent and stays in the map
StorageGetKeepsExpired(d, k, t) ==
    IF k \in DOMAIN d /\ ~IsExpired(d[k], t)
    THEN [data |-> d, exists |-> TRUE, item |-> d[k]]
    ELSE [data |-> d, exists |-> FALSE, item |-> ZeroItem]

StorageGet(d, k, t) ==
    IF k \notin DOMAIN d
    THEN [data |-> d, exists |-> FALSE, item |-> ZeroItem]
    ELSE IF IsExpired(d[k], t)
         THEN [data |-> MapDelete(d, k), exists |-> FALSE, item |-> ZeroItem]
         ELSE [data |-> d, exists |-> TRUE, item |-> d[k]]

\* a faulty Set: the entry of a stored key is kept
StorageSetKeepsOld(d, k, item) == IF k \in DOMAIN d THEN d ELSE MapPut(d, k, item)

StorageSet(d, k, item) == MapPut(d, k, item)

\* a faulty Delete: the entry stays in the map
StorageDeleteKeeps(d, k) == [data |-> d, ok |-> k \in DOMAIN d]

StorageDelete(d, k) ==
    IF k \in DOMAIN d
    THEN [data |-> MapDelete(d, k), ok |-> TRUE]
    ELSE [data |-> d, ok |-> FALSE]

StorageClear(d) == EmptyMap

StorageSize(d) == Cardinality(DOMAIN d)

StorageKeys(d) == DOMAIN d

\* a faulty CleanupExpired: every entry with a TTL is removed, due or not
\* a faulty CleanupExpired: it scans the map and removes nothing
CleanupExpiredNone(d, t) == [data |-> d, removed |-> 0]

CleanupExpiredAll(d, t) ==
    LET gone == {k \in DOMAIN d : d[k].HasTTL}
    IN  [data |-> [x \in DOMAIN d \ gone |-> d[x]], removed |-> Cardinality(gone)]

CleanupExpired(d, t) ==
    LET gone == {k \in DOMAIN d : IsExpired(d[k], t)}
    IN  [data |-> [x \in DOMAIN d \ gone |-> d[x]], removed |-> Cardinality(gone)]

(***************************************************************************)
(* The eviction policies.  Element 1 of the sequence is order.Front().     *)
(***************************************************************************)
\* a faulty LRU Access: a tracked key is not moved to the front
LRUAccessNoMove(o, k) == IF k \in Range(o) THEN o ELSE <<k>> \o o

LRUAccess(o, k) == <<k>> \o SeqRemove(o, k)

\* a faulty LRU Evict: the victim is returned and stays tracked
LRUEvictKeeps(o) ==
    IF Len(o) = 0
    THEN [order |-> o, key |-> NoKey, ok |-> FALSE]
    ELSE [order |-> o, key |-> o[Len(o)], ok |-> TRUE]

LRUEvict(o) ==
    IF Len(o) = 0
    THEN [order |-> o, key |-> NoKey, ok |-> FALSE]
    ELSE [order |-> SubSeq(o, 1, Len(o) - 1), key |-> o[Len(o)], ok |-> TRUE]

\* a faulty FIFO Access: a tracked key is moved to the back
FIFOAccessMoves(o, k) == Append(SeqRemove(o, k), k)

FIFOAccess(o, k) == IF k \in Range(o) THEN o ELSE Append(o, k)

FIFOEvict(o) ==
    IF Len(o) = 0
    THEN [order |-> o, key |-> NoKey, ok |-> FALSE]
    ELSE [order |-> Tail(o), key |-> Head(o), ok |-> TRUE]

LIFOAccess(o, k) == IF k \in Range(o) THEN o ELSE Append(o, k)

\* a faulty LIFO Evict: the front of the list is the victim
LIFOEvictFront(o) ==
    IF Len(o) = 0
    THEN [order |-> o, key |-> NoKey, ok |-> FALSE]
    ELSE [order |-> Tail(o), key |-> Head(o), ok |-> TRUE]

LIFOEvict(o) ==
    IF Len(o) = 0
    THEN [order |-> o, key |-> NoKey, ok |-> FALSE]
    ELSE [order |-> SubSeq(o, 1, Len(o) - 1), key |-> o[Len(o)], ok |-> TRUE]

\* a faulty Remove: the element at the back is unlinked instead
PolicyRemoveBack(o, k) == IF k \in Range(o) THEN SubSeq(o, 1, Len(o) - 1) ELSE o

PolicyRemove(o, k) == SeqRemove(o, k)

\* a faulty Clear of the policy: the keys stay tracked
PolicyClearKeeps(o) == o

PolicyClear(o) == << >>

PolicySize(o) == Cardinality(Range(o))

\* a faulty Access: a key the policy does not track stays untracked
PolicyAccessTrackedOnly(p, o, k) ==
    IF k \notin Range(o) THEN o
    ELSE IF p = "LRU" THEN LRUAccess(o, k) ELSE o

PolicyAccess(p, o, k) ==
    CASE p = "LRU" -> LRUAccess(o, k)
      [] p = "FIFO" -> FIFOAccess(o, k)
      [] p = "LIFO" -> LIFOAccess(o, k)

PolicyEvict(p, o) ==
    CASE p = "LRU" -> LRUEvict(o)
      [] p = "FIFO" -> FIFOEvict(o)
      [] p = "LIFO" -> LIFOEvict(o)

(***************************************************************************)
(* The coordinator's write path on a state st = [data, order, evictions,   *)
(* victim]: what SetWithTTL and setBatchItem do after the TTL is chosen.   *)
(***************************************************************************)
NewItem(v, ttl, t) == SetTTL([ZeroItem EXCEPT !.Value = v], ttl, t)

\* a faulty SetWithTTL: every set takes the path of a new key
IsUpdateNever(g, t) == FALSE

\* SetWithTTL: exists && !existing.IsExpired(), the update in place
IsUpdate(g, t) == g.exists /\ ~IsExpired(g.item, t)

StoreItem(p, cap, st, k, v, ttl, t) ==
    LET item == NewItem(v, ttl, t)
        g == StorageGet(st.data, k, t)
    IN  IF IsUpdate(g, t)
        THEN [data |-> StorageSet(g.data, k, item),
              order |-> PolicyAccess(p, st.order, k),
              evictions |-> st.evictions,
              victims |-> st.victims]
        ELSE LET full == StorageSize(g.data) >= cap
                 e == IF full THEN PolicyEvict(p, st.order)
                      ELSE [order |-> st.order, key |-> NoKey, ok |-> FALSE]
                 d1 == IF e.ok THEN StorageDelete(g.data, e.key).data ELSE g.data
             IN  [data |-> StorageSet(d1, k, item),
                  order |-> PolicyAccess(p, e.order, k),
                  evictions |-> IF e.ok THEN st.evictions + 1 ELSE st.evictions,
                  victims |-> IF e.ok THEN Append(st.victims, e.key) ELSE st.victims]

ClampTTL(ttl, max) == IF ttl > max THEN max ELSE ttl

setBatchItem(p, cap, dflt, st, k, v, t) == StoreItem(p, cap, st, k, v, dflt, t)

CacheState == [data |-> data, order |-> order, evictions |-> evictions, victims |-> << >>]

(***************************************************************************)
(* What a completed operation leaves in `last`.                            *)
(***************************************************************************)
Blank ==
    [op |-> "new", key |-> NoKey, found |-> FALSE, value |-> ZeroValue, ttl |-> 0,
     n |-> 0, keys |-> << >>, res |-> EmptyMap, victims |-> << >>, opts |-> << >>]

(***************************************************************************)
(* Inputs of the batch operations: a map is given by the order in which    *)
(* `range` happens to iterate it.                                          *)
(***************************************************************************)
KeyLists(K) == UNION {[1..n -> K] : n \in BatchLens}

DistinctKeyLists(K) == {ks \in KeyLists(K) : Cardinality(Range(ks)) = Len(ks)}

(***************************************************************************)
(* New: the states a freshly constructed cache can be in.                  *)
(***************************************************************************)
NewCache(kinds, caps, dflts, maxs, safes) ==
    /\ kind \in kinds
    /\ capacity \in caps
    /\ defaultTTL \in dflts
    /\ maxTTL \in maxs
    /\ threadSafe \in safes
    /\ data = EmptyMap
    /\ order = << >>
    /\ hits = 0
    /\ misses = 0
    /\ evictions = 0
    /\ now = 0
    /\ closed = FALSE
    /\ last = Blank
    /\ written = [k \in Keys |-> NoWrite]
    /\ usedAt = [k \in Keys |-> 0]
    /\ bornAt = [k \in Keys |-> 0]
    /\ clock = 0
    /\ replaced = FALSE
    /\ th = [t \in Threads |-> Idle]
    /\ calls = [found |-> 0, missed |-> 0]
    /\ before = Blank
    /\ sweeper = IF defaultTTL > 0 THEN "waiting" ELSE "none"
    /\ batch = NoBatch
    /\ mu = [m \in {"c", "s", "p"} |-> Unlocked]
    /\ run = [r \in Routines |-> NoRun]

\* the default: thread_safe = true
New(kinds, caps, dflts, maxs) == NewCache(kinds, caps, dflts, maxs, {TRUE})

(***************************************************************************)
(* The coordinator's operations, each as one atomic step.                  *)
(***************************************************************************)
Get(k) ==
    LET g == StorageGet(data, k, now)
        hit == g.exists /\ ~IsExpired(g.item, now)
    IN  /\ IF hit THEN hits < MaxCount ELSE misses < MaxCount
        /\ data' = g.data
        /\ order' = IF hit THEN PolicyAccess(kind, order, k) ELSE order
        /\ hits' = IF hit THEN hits + 1 ELSE hits
        /\ misses' = IF hit THEN misses ELSE misses + 1
        /\ last' = [Blank EXCEPT !.op = "get", !.key = k, !.found = hit,
                                 !.value = IF hit THEN g.item.Value ELSE ZeroValue]
        /\ UNCHANGED <<config, evictions, now, closed>>

SetWithTTLAs(op, k, v, ttl) ==
    LET st == StoreItem(kind, capacity, CacheState, k, v, ClampTTL(ttl, maxTTL), now)
    IN  /\ st.evictions <= MaxCount
        /\ data' = st.data
        /\ order' = st.order
        /\ evictions' = st.evictions
        /\ last' = [Blank EXCEPT !.op = op, !.key = k, !.found = TRUE, !.value = v,
                                 !.ttl = ttl, !.victims = st.victims]
        /\ UNCHANGED <<config, hits, misses, now, closed>>

SetWithTTL(k, v, ttl) == SetWithTTLAs("set_with_ttl", k, v, ttl)

\* SetWithTTL in a run without end: atomic.AddInt64 wraps, and the
\* counter's width here is that of 0 .. MaxCount
SetWithTTLWrapping(k, v, ttl) ==
    LET st == StoreItem(kind, capacity, CacheState, k, v, ClampTTL(ttl, maxTTL), now)
    IN  /\ data' = st.data
        /\ order' = st.order
        /\ evictions' = st.evictions % (MaxCount + 1)
        /\ last' = [Blank EXCEPT !.op = "set_with_ttl", !.key = k, !.found = TRUE,
                                 !.value = v, !.ttl = ttl, !.victims = st.victims]
        /\ UNCHANGED <<config, hits, misses, now, closed>>

Set(k, v) == SetWithTTLAs("set", k, v, defaultTTL)

\* a faulty Delete: it resets the statistics, as Clear does
DeleteResetsStats(k) ==
    LET r == StorageDelete(data, k)
    IN  /\ data' = r.data
        /\ order' = IF r.ok THEN PolicyRemove(order, k) ELSE order
        /\ hits' = 0
        /\ misses' = 0
        /\ evictions' = 0
        /\ last' = [Blank EXCEPT !.op = "delete", !.key = k, !.found = r.ok]
        /\ UNCHANGED <<config, now, closed>>

\* a faulty Delete: the key stays in the policy
DeleteKeepsPolicy(k) ==
    LET r == StorageDelete(data, k)
    IN  /\ data' = r.data
        /\ last' = [Blank EXCEPT !.op = "delete", !.key = k, !.found = r.ok]
        /\ UNCHANGED <<config, order, hits, misses, evictions, now, closed>>

Delete(k) ==
    LET r == StorageDelete(data, k)
    IN  /\ data' = r.data
        /\ order' = IF r.ok THEN PolicyRemove(order, k) ELSE order
        /\ last' = [Blank EXCEPT !.op = "delete", !.key = k, !.found = r.ok]
        /\ UNCHANGED <<config, hits, misses, evictions, now, closed>>

Clear ==
    /\ data' = StorageClear(data)
    /\ order' = PolicyClear(order)
    /\ hits' = 0
    /\ misses' = 0
    /\ evictions' = 0
    /\ last' = [Blank EXCEPT !.op = "clear"]
    /\ UNCHANGED <<config, now, closed>>

\* a faulty Contains: every key is reported as stored
ContainsFoundAlways(k) ==
    /\ last' = [Blank EXCEPT !.op = "contains", !.key = k, !.found = TRUE]
    /\ UNCHANGED <<config, data, order, hits, misses, evictions, now, closed>>

Contains(k) ==
    LET g == StorageGet(data, k, now)
    IN  /\ data' = g.data
        /\ last' = [Blank EXCEPT !.op = "contains", !.key = k,
                                 !.found = g.exists /\ ~IsExpired(g.item, now)]
        /\ UNCHANGED <<config, order, hits, misses, evictions, now, closed>>

Size ==
    /\ last' = [Blank EXCEPT !.op = "size", !.n = StorageSize(data)]
    /\ UNCHANGED <<config, data, order, hits, misses, evictions, now, closed>>

ListKeys ==
    /\ last' = [Blank EXCEPT !.op = "keys", !.n = Cardinality(StorageKeys(data))]
    /\ UNCHANGED <<config, data, order, hits, misses, evictions, now, closed>>

\* a faulty SetBatch loop: it stops after the first pair
SetBatchFirstOnly(st, ks, vs, i) ==
    setBatchItem(kind, capacity, defaultTTL, st, ks[1], vs[ks[1]], now)

RECURSIVE SetBatchFrom(_, _, _, _)
SetBatchFrom(st, ks, vs, i) ==
    IF i > Len(ks) THEN st
    ELSE SetBatchFrom(setBatchItem(kind, capacity, defaultTTL, st, ks[i], vs[ks[i]], now),
                      ks, vs, i + 1)

SetBatch(ks, vs) ==
    LET st == SetBatchFrom(CacheState, ks, vs, 1)
    IN  /\ st.evictions <= MaxCount
        /\ data' = st.data
        /\ order' = st.order
        /\ evictions' = st.evictions
        /\ last' = [Blank EXCEPT !.op = "set_batch", !.n = Len(ks), !.keys = ks,
                                 !.res = vs, !.ttl = defaultTTL, !.victims = st.victims]
        /\ UNCHANGED <<config, hits, misses, now, closed>>

\* a faulty GetBatch loop: a key listed twice is counted once
GetBatchOncePerKey(st, ks, i) ==
    LET live == {k \in Range(ks) \cap DOMAIN st.data : ~IsExpired(st.data[k], now)}
    IN  [data |-> [x \in DOMAIN st.data \ (Range(ks) \ live) |-> st.data[x]],
         order |-> st.order,
         hits |-> st.hits + Cardinality(live),
         misses |-> st.misses + Cardinality(Range(ks) \ live),
         result |-> [k \in live |-> st.data[k].Value]]

RECURSIVE GetBatchFrom(_, _, _)
GetBatchFrom(st, ks, i) ==
    IF i > Len(ks) THEN st
    ELSE LET g == StorageGet(st.data, ks[i], now)
             hit == g.exists /\ ~IsExpired(g.item, now)
         IN  GetBatchFrom(
                 [data |-> g.data,
                  order |-> IF hit THEN PolicyAccess(kind, st.order, ks[i]) ELSE st.order,
                  hits |-> IF hit THEN st.hits + 1 ELSE st.hits,
                  misses |-> IF hit THEN st.misses ELSE st.misses + 1,
                  result |-> IF hit THEN MapPut(st.result, ks[i], g.item.Value)
                             ELSE st.result],
                 ks, i + 1)

\* GetBatch while the counters stay within max
GetBatchUpTo(ks, max) ==
    LET st == GetBatchFrom([data |-> data, order |-> order, hits |-> hits,
                            misses |-> misses, result |-> EmptyMap], ks, 1)
    IN  /\ st.hits <= max
        /\ st.misses <= max
        /\ data' = st.data
        /\ order' = st.order
        /\ hits' = st.hits
        /\ misses' = st.misses
        /\ last' = [Blank EXCEPT !.op = "get_batch", !.keys = ks, !.res = st.result]
        /\ UNCHANGED <<config, evictions, now, closed>>

GetBatch(ks) == GetBatchUpTo(ks, MaxCount)

\* a faulty DeleteBatch loop: every listed key is counted
DeleteBatchCountsAll(st, ks, i) ==
    [data |-> [x \in DOMAIN st.data \ Range(ks) |-> st.data[x]],
     order |-> SelectSeq(st.order, LAMBDA x : x \notin Range(ks) \/ x \notin DOMAIN st.data),
     count |-> st.count + Len(ks)]

RECURSIVE DeleteBatchFrom(_, _, _)
DeleteBatchFrom(st, ks, i) ==
    IF i > Len(ks) THEN st
    ELSE LET r == StorageDelete(st.data, ks[i])
         IN  DeleteBatchFrom(
                 [data |-> r.data,
                  order |-> IF r.ok THEN PolicyRemove(st.order, ks[i]) ELSE st.order,
                  count |-> IF r.ok THEN st.count + 1 ELSE st.count],
                 ks, i + 1)

DeleteBatch(ks) ==
    LET st == DeleteBatchFrom([data |-> data, order |-> order, count |-> 0], ks, 1)
    IN  /\ data' = st.data
        /\ order' = st.order
        /\ last' = [Blank EXCEPT !.op = "delete_batch", !.keys = ks, !.n = st.count]
        /\ UNCHANGED <<config, hits, misses, evictions, now, closed>>

(***************************************************************************)
(* The sweeper: it runs iff default_ttl > 0 and Close has not stopped it.  *)
(***************************************************************************)
\* a faulty cleanup: the keys it removed are removed from the policy too
cleanupTellsPolicy ==
    /\ defaultTTL > 0
    /\ ~closed
    /\ data' = CleanupExpired(data, now).data
    /\ order' = SelectSeq(order, LAMBDA k : k \notin DOMAIN data \/ k \in DOMAIN data')
    /\ last' = [Blank EXCEPT !.op = "cleanup", !.n = CleanupExpired(data, now).removed]
    /\ UNCHANGED <<config, hits, misses, evictions, now, closed>>

cleanup ==
    /\ defaultTTL > 0
    /\ ~closed
    /\ data' = CleanupExpired(data, now).data
    /\ last' = [Blank EXCEPT !.op = "cleanup", !.n = CleanupExpired(data, now).removed]
    /\ UNCHANGED <<config, order, hits, misses, evictions, now, closed>>

\* Close: if c.cleanupTicker != nil { close(c.stopCleanup) }
Close ==
    /\ ~closed
    /\ closed' = (sweeper # "none")
    /\ last' = [Blank EXCEPT !.op = "close"]
    /\ UNCHANGED <<config, data, order, hits, misses, evictions, now>>

(***************************************************************************)
(* The wall clock advances between operations.                             *)
(***************************************************************************)
Tick ==
    /\ now < MaxTime
    /\ now' = now + 1
    /\ last' = [Blank EXCEPT !.op = "tick"]
    /\ UNCHANGED <<config, data, order, hits, misses, evictions, closed>>

(***************************************************************************)
(* History.  The history variables are written by observers that read only *)
(* what the completed operation was called with and what it returned.      *)
(***************************************************************************)
Quiet(A) == A /\ UNCHANGED <<history, th, calls, before, tasks>>

EffectiveTTL(ttl) == IF ttl > maxTTL THEN maxTTL ELSE ttl

\* written[k]: the latest set of k, until k is deleted, cleared or evicted.
WrittenAfter(l) ==
    [k \in Keys |->
        IF l.op \in {"set", "set_with_ttl"} /\ l.key = k
        THEN [live |-> TRUE, value |-> l.value, at |-> now, ttl |-> EffectiveTTL(l.ttl)]
        ELSE IF \/ l.op = "delete" /\ l.key = k
                \/ l.op = "delete_batch" /\ k \in Range(l.keys)
                \/ l.op = "clear"
                \/ k \in Range(l.victims)
             THEN NoWrite
             ELSE written[k]]

Writes(A) ==
    /\ A
    /\ written' = WrittenAfter(last')
    /\ UNCHANGED <<usedAt, bornAt, clock, replaced, th, calls, before, tasks>>

\* replaced: the key the operation set was stored and not expired when it ran.
Rewrites(A) ==
    /\ A
    /\ written' = WrittenAfter(last')
    /\ replaced' = (/\ last'.op \in {"set", "set_with_ttl"}
                    /\ last'.key \in DOMAIN data
                    /\ ~IsExpired(data[last'.key], now))
    /\ UNCHANGED <<usedAt, bornAt, clock, th, calls, before, tasks>>

WriteLive(k) == written[k].live

WriteFresh(k) == written[k].ttl = 0 \/ now <= written[k].at + written[k].ttl

(***************************************************************************)
(* Spec: every operation of the coordinator, the sweeper and the clock.    *)
(***************************************************************************)
Init == New(Kinds, {1}, {1}, {1})

Next ==
    \/ \E k \in Keys2 : Quiet(Get(k))
    \/ \E k \in Keys2 : Quiet(Set(k, 1))
    \/ \E k \in Keys2, ttl \in TTLs : Quiet(SetWithTTL(k, 1, ttl))
    \/ \E k \in Keys2 : Quiet(Delete(k))
    \/ Quiet(Clear)
    \/ \E k \in Keys2 : Quiet(Contains(k))
    \/ Quiet(Size)
    \/ \E ks \in DistinctKeyLists(Keys2) : Quiet(SetBatch(ks, [k \in Range(ks) |-> 1]))
    \/ \E ks \in KeyLists(Keys2) : Quiet(GetBatch(ks))
    \/ \E ks \in KeyLists(Keys2) : Quiet(DeleteBatch(ks))
    \/ Quiet(cleanup)
    \/ Quiet(Close)
    \/ Quiet(Tick)

Spec == Init /\ [][Next]_vars

(***************************************************************************)
(* SpecWrites: reads, writes of two values, deletes, clear and expiry,     *)
(* with the history of writes.                                             *)
(***************************************************************************)
InitWrites == New({"LRU", "FIFO"}, {1, 2}, {1}, {1})

NextWrites ==
    \/ \E k \in Keys2 : Rewrites(Get(k))
    \/ \E k \in Keys2, v \in Values : Rewrites(Set(k, v))
    \/ \E k \in Keys2, ttl \in {-1, 0} : Rewrites(SetWithTTL(k, 1, ttl))
    \/ \E k \in Keys2 : Rewrites(Delete(k))
    \/ Rewrites(Clear)
    \/ Rewrites(Tick)

SpecWrites == InitWrites /\ [][NextWrites]_vars

(***************************************************************************)
(* SpecExpiry: entries with negative, zero and positive TTLs, read by get, *)
(* get_batch and contains while the clock advances and the sweeper runs.   *)
(***************************************************************************)
InitExpiry == New({"LRU"}, {1, 2}, {1}, {1})

NextExpiry ==
    \/ \E k \in Keys2 : Writes(Get(k))
    \/ \E k \in Keys2, ttl \in ShortTTLs : Writes(SetWithTTL(k, 1, ttl))
    \/ Writes(Delete("a"))
    \/ Writes(Contains("a"))
    \/ \E ks \in DistinctKeyLists(Keys2) : Writes(GetBatch(ks))
    \/ Writes(cleanup)
    \/ Writes(Tick)

SpecExpiry == InitExpiry /\ [][NextExpiry]_vars

(***************************************************************************)
(* SpecClamp: writes through set, set_with_ttl and set_batch under every   *)
(* pairing of default_ttl and max_ttl, default_ttl > max_ttl and           *)
(* max_ttl = 0 included.                                                   *)
(***************************************************************************)
InitClamp == New({"LRU"}, {1}, {0, 1, 2}, {0, 1})

NextClamp ==
    \/ \E k \in Keys2 : Quiet(Get(k))
    \/ \E k \in Keys2 : Quiet(Set(k, 1))
    \/ \E k \in Keys2, ttl \in TTLs : Quiet(SetWithTTL(k, 1, ttl))
    \/ \E ks \in DistinctKeyLists(Keys2) : Quiet(SetBatch(ks, [k \in Range(ks) |-> 1]))
    \/ Quiet(Tick)

SpecClamp == InitClamp /\ [][NextClamp]_vars

(***************************************************************************)
(* SpecOps: every public operation and the sweeper at one instant; the     *)
(* entries set with a negative TTL are the expired ones.                   *)
(***************************************************************************)
InitOps == New(Kinds, {1, 2}, {1}, {1})

NextOps ==
    \/ \E k \in Keys2 : Quiet(Get(k))
    \/ \E k \in Keys2 : Quiet(Set(k, 1))
    \/ \E k \in Keys2 : Quiet(SetWithTTL(k, 1, -1))
    \/ \E k \in Keys2 : Quiet(Delete(k))
    \/ Quiet(Clear)
    \/ \E k \in Keys2 : Quiet(Contains(k))
    \/ Quiet(Size)
    \/ Quiet(ListKeys)
    \/ \E ks \in DistinctKeyLists(Keys2) : Quiet(SetBatch(ks, [k \in Range(ks) |-> 1]))
    \/ \E ks \in KeyLists(Keys2) : Quiet(GetBatch(ks))
    \/ \E ks \in KeyLists(Keys2) : Quiet(DeleteBatch(ks))
    \/ Quiet(cleanup)
    \/ Quiet(Close)

SpecOps == InitOps /\ [][NextOps]_vars

(***************************************************************************)
(* SpecBatch: set_batch and get_batch one after the other, with `before`   *)
(* the operation that came before the last one.  A batch of two may count two  *)
(* hits or two misses, so here the counters go up to MaxCount + 1.         *)
(***************************************************************************)
Sequel(A) ==
    /\ A
    /\ before' = last
    /\ UNCHANGED <<history, th, calls, tasks>>

ValueMaps(ks) == [Range(ks) -> Values]

InitBatch == New({"LRU"}, {1, 2}, {1}, {1})

NextBatch ==
    \/ \E ks \in DistinctKeyLists(Keys2) :
          \E vs \in ValueMaps(ks) : Sequel(SetBatch(ks, vs))
    \/ \E ks \in KeyLists(Keys2) : Sequel(GetBatchUpTo(ks, MaxCount + 1))
    \/ Sequel(SetWithTTL("a", 1, -1))
    \/ Sequel(Clear)

SpecBatch == InitBatch /\ [][NextBatch]_vars

(***************************************************************************)
(* SpecPurge: reads of live, expired and absent keys, each between calls   *)
(* of size and keys; `before` is the operation that completed before the   *)
(* last one.                                                               *)
(***************************************************************************)
InitPurge == New({"LRU"}, {2}, {0}, {1})

NextPurge ==
    \/ \E k \in Keys2, ttl \in {-1, 1} : Sequel(SetWithTTL(k, 1, ttl))
    \/ \E k \in Keys2 : Sequel(Get(k))
    \/ \E k \in Keys2 : Sequel(Contains(k))
    \/ \E ks \in KeyLists(Keys2) : Sequel(GetBatchUpTo(ks, MaxCount + 1))
    \/ Sequel(Size)
    \/ Sequel(ListKeys)
    \/ Sequel(Tick)

SpecPurge == InitPurge /\ [][NextPurge]_vars

(***************************************************************************)
(* SpecStale: sets without end, of entries that never expire and of        *)
(* entries that are expired at once, and contains, whose purge leaves the  *)
(* key in the policy.                                                      *)
(***************************************************************************)
InitStale == New(Kinds, {1, 2}, {0}, {1})

NextStale ==
    \/ \E k \in Keys3, ttl \in {-1, 0} : Quiet(SetWithTTLWrapping(k, 1, ttl))
    \/ \E k \in Keys3 : Quiet(Contains(k))

SpecStale == InitStale /\ [][NextStale]_vars

\* a set of a key that is neither stored nor tracked
SetOfNewKey ==
    /\ last'.op = "set_with_ttl"
    /\ last'.key \notin DOMAIN data \cup Range(order)
    /\ last'.key \in DOMAIN data'

\* SpecArrivals: the same calls, made by a caller that never stops setting
\* new keys: whenever a set of a new key is possible again and again, one
\* is made in the end
SpecArrivals == SpecStale /\ SF_vars(NextStale /\ SetOfNewKey)

(***************************************************************************)
(* SpecPolicy: a policy on its own, as the coordinator or a test drives    *)
(* it: Access, Evict, Remove and Clear of eviction.Policy.                 *)
(***************************************************************************)
Access(k) ==
    /\ order' = PolicyAccess(kind, order, k)
    /\ last' = [Blank EXCEPT !.op = "access", !.key = k]
    /\ UNCHANGED <<config, data, hits, misses, evictions, now, closed>>

Evict ==
    LET e == PolicyEvict(kind, order)
    IN  /\ order' = e.order
        /\ last' = [Blank EXCEPT !.op = "evict", !.key = e.key, !.found = e.ok]
        /\ UNCHANGED <<config, data, hits, misses, evictions, now, closed>>

Remove(k) ==
    /\ order' = PolicyRemove(order, k)
    /\ last' = [Blank EXCEPT !.op = "remove", !.key = k]
    /\ UNCHANGED <<config, data, hits, misses, evictions, now, closed>>

ClearPolicy ==
    /\ order' = PolicyClear(order)
    /\ last' = [Blank EXCEPT !.op = "policy_clear"]
    /\ UNCHANGED <<config, data, hits, misses, evictions, now, closed>>

InitPolicy == New(Kinds, {3}, {0}, {1})

NextPolicy ==
    \/ \E k \in Keys3 : Sequel(Access(k))
    \/ Sequel(Evict)
    \/ \E k \in Keys3 : Sequel(Remove(k))
    \/ Sequel(ClearPolicy)

SpecPolicy == InitPolicy /\ [][NextPolicy]_vars

(***************************************************************************)
(* SpecCapacity: caches built with the capacity options -1, 0, 1, 2 and    *)
(* with none, then filled and asked for their statistics.                  *)
(***************************************************************************)
\* a faulty WithCapacity: the number is taken as given
WithCapacityAsGiven(n) == n

\* WithCapacity(n) applied to a config: the Capacity it leaves
WithCapacity(n) == IF n <= 0 THEN DefaultCapacity ELSE n

\* New: config.Capacity after `for _, opt := range opts { opt(config) }`
RECURSIVE Configure(_, _, _)
Configure(cap, opts, i) ==
    IF i > Len(opts) THEN cap
    ELSE Configure(WithCapacity(opts[i]), opts, i + 1)

CapacityOptions == {-1, 0, 1, 2}

OptionLists == {<< >>} \cup UNION {[1..n -> CapacityOptions] : n \in BatchLens}

\* New(WithCapacity(opts[1]), ...): a fresh cache takes the place of the old
Construct(opts) ==
    /\ capacity' = Configure(DefaultCapacity, opts, 1)
    /\ data' = EmptyMap
    /\ order' = << >>
    /\ hits' = 0
    /\ misses' = 0
    /\ evictions' = 0
    /\ closed' = FALSE
    /\ last' = [Blank EXCEPT !.opts = opts]
    /\ UNCHANGED <<kind, defaultTTL, maxTTL, threadSafe, now>>

Stats ==
    /\ last' = [Blank EXCEPT
                  !.op = "stats",
                  !.res = [hits |-> hits, misses |-> misses, evictions |-> evictions,
                           size |-> StorageSize(data), capacity |-> capacity,
                           ratio |-> IF hits + misses > 0 THEN <<hits, hits + misses>>
                                     ELSE <<0, 1>>]]
    /\ UNCHANGED <<config, data, order, hits, misses, evictions, now, closed>>

InitCapacity == New({"LRU"}, {DefaultCapacity}, {0}, {1})

NextCapacity ==
    \/ \E opts \in OptionLists : Sequel(Construct(opts))
    \/ \E k \in Keys3 : Sequel(Set(k, 1))
    \/ \E k \in Keys2 : Sequel(Get(k))
    \/ Sequel(Stats)

SpecCapacity == InitCapacity /\ [][NextCapacity]_vars

(***************************************************************************)
(* SpecSeen: contains and get in one thread, between writes, sweeper ticks *)
(* and clock ticks.  Here `before` is the latest contains that returned    *)
(* true, as long as no set, delete, clear or sweeper tick came after it,   *)
(* and `written` the latest write of each key.                             *)
(***************************************************************************)
Writers == {"set", "set_with_ttl", "delete", "clear", "set_batch", "delete_batch",
            "cleanup"}

Sees(A) ==
    /\ A
    /\ before' = IF last'.op = "contains" /\ last'.found THEN last'
                 ELSE IF last'.op \in Writers THEN Blank
                 ELSE before
    /\ written' = WrittenAfter(last')
    /\ UNCHANGED <<usedAt, bornAt, clock, replaced, th, calls, tasks>>

InitSeen == New({"LRU"}, {1, 2}, {1}, {1})

NextSeen ==
    \/ \E k \in Keys2 : Sees(Contains(k))
    \/ \E k \in Keys2 : Sees(Get(k))
    \/ \E k \in Keys2 : Sees(Set(k, 1))
    \/ Sees(SetWithTTL("a", 1, 0))
    \/ Sees(Delete("a"))
    \/ Sees(Size)
    \/ Sees(cleanup)
    \/ Sees(Tick)

SpecSeen == InitSeen /\ [][NextSeen]_vars

(***************************************************************************)
(* The history of accesses: the keys a completed operation set or hit, in  *)
(* the order it did.                                                       *)
(***************************************************************************)
Accesses(l) ==
    CASE l.op \in {"set", "set_with_ttl"} -> <<l.key>>
      [] l.op = "get" /\ l.found -> <<l.key>>
      [] l.op = "get_batch" -> SelectSeq(l.keys, LAMBDA k : k \in DOMAIN l.res)
      [] OTHER -> << >>

Dropped(l) ==
    CASE l.op = "delete" -> {l.key}
      [] l.op = "delete_batch" -> Range(l.keys)
      [] l.op = "clear" -> Keys
      [] OTHER -> Range(l.victims)

RECURSIVE StampAll(_, _, _, _)
StampAll(f, ks, c, onlyNew) ==
    IF ks = << >> THEN f
    ELSE StampAll([f EXCEPT ![Head(ks)] = IF onlyNew /\ f[Head(ks)] # 0 THEN @ ELSE c + 1],
                  Tail(ks), c + 1, onlyNew)

Forget(f, gone) == [k \in Keys |-> IF k \in gone THEN 0 ELSE f[k]]

Uses(A) ==
    /\ A
    /\ clock + Len(Accesses(last')) <= MaxClock
    /\ clock' = clock + Len(Accesses(last'))
    /\ usedAt' = StampAll(Forget(usedAt, Dropped(last')), Accesses(last'), clock, FALSE)
    /\ bornAt' = StampAll(Forget(bornAt, Dropped(last')),
                          IF last'.op = "set" THEN <<last'.key>> ELSE << >>, clock, TRUE)
    /\ UNCHANGED <<written, replaced, th, calls, before, tasks>>

Live == {k \in Keys : bornAt[k] > 0}

Oldest(f) == CHOOSE k \in Live : \A j \in Live : f[k] <= f[j]

Newest(f) == CHOOSE k \in Live : \A j \in Live : f[k] >= f[j]

(***************************************************************************)
(* SpecLRU, SpecFIFO, SpecLIFO: a cache without TTLs under each policy,    *)
(* with the history of accesses.  There is one key more than the capacity; *)
(* reads are of stored keys (a miss touches neither the store nor the      *)
(* policy).                                                                *)
(***************************************************************************)
KeysFor(cap) == IF cap = 2 THEN Keys3 ELSE Keys

NextOrder ==
    \/ \E k \in DOMAIN data : Uses(Get(k))
    \/ \E k \in KeysFor(capacity) : Uses(Set(k, 1))
    \/ \E k \in Keys2 : Uses(Delete(k))
    \/ \E ks \in DistinctKeyLists(Keys2 \cap DOMAIN data) : Uses(GetBatch(ks))
    \/ Uses(Clear)

InitLRU == New({"LRU"}, {2, 3}, {0}, {1})

SpecLRU == InitLRU /\ [][NextOrder]_vars

InitFIFO == New({"FIFO"}, {2, 3}, {0}, {1})

SpecFIFO == InitFIFO /\ [][NextOrder]_vars

InitLIFO == New({"LIFO"}, {2, 3}, {0}, {1})

SpecLIFO == InitLIFO /\ [][NextOrder]_vars

(***************************************************************************)
(* SpecReinsert: a FIFO cache with default_ttl = 1.  Keys are set when     *)
(* they are not stored or their entry has expired, so that usedAt[k] is    *)
(* when k was inserted last and bornAt[k] when it was inserted first;      *)
(* contains and the sweeper purge what has expired.                        *)
(***************************************************************************)
InitReinsert == New({"FIFO"}, {2}, {1}, {1})

NextReinsert ==
    \/ \E k \in Keys3 :
          /\ k \in DOMAIN data => IsExpired(data[k], now)
          /\ Uses(Set(k, 1))
    \/ \E k \in Keys3 : Uses(Contains(k))
    \/ Uses(cleanup)
    \/ Uses(Tick)

SpecReinsert == InitReinsert /\ [][NextReinsert]_vars

(***************************************************************************)
(* Readers under the coordinator's shared lock (thread_safe = true).  Get  *)
(* and Contains hold c.mu.RLock from begin to return, so several threads   *)
(* may be inside them at once; Set, Delete and the sweeper hold c.mu.Lock  *)
(* and run only while no reader is inside.  A reader's steps are the       *)
(* critical sections of the store's and the policy's own locks, and its    *)
(* unlocked reads of the *Item it was handed.                              *)
(*                                                                         *)
(* th[t].ref is the *Item held by thread t: "stored" while the record is   *)
(* still data[key], "pooled" once another thread's purge has reset it and  *)
(* put it back into the pool.                                              *)
(***************************************************************************)
AllIdle == \A t \in Threads : th[t].pc = "idle"

\* c.mu.RLock() at the top of Get / Contains
ReadBegin(t, op, k) ==
    /\ th[t].pc = "idle"
    /\ th' = [th EXCEPT ![t] = [Idle EXCEPT !.pc = "lookup", !.op = op, !.key = k]]
    /\ UNCHANGED <<config, cache, history>>

\* memoryStorage.Get under s.mu.RLock: the map lookup and item.IsExpired()
ReadLookup(t) ==
    LET k == th[t].key
    IN  /\ th[t].pc = "lookup"
        /\ th' = [th EXCEPT ![t].pc = IF k \notin DOMAIN data THEN "miss"
                                       ELSE IF IsExpired(data[k], now) THEN "purge"
                                       ELSE "check",
                            ![t].ref = IF k \in DOMAIN data /\ ~IsExpired(data[k], now)
                                       THEN "stored" ELSE "nil"]
        /\ UNCHANGED <<config, cache, history>>

\* memoryStorage.Get under s.mu.Lock: the re-check, delete and itemPool.Put
ReadPurge(t) ==
    LET k == th[t].key
        gone == k \in DOMAIN data /\ IsExpired(data[k], now)
    IN  /\ th[t].pc = "purge"
        /\ data' = IF gone THEN MapDelete(data, k) ELSE data
        /\ th' = [u \in Threads |->
                    IF u = t THEN [th[u] EXCEPT !.pc = "miss"]
                    ELSE IF gone /\ th[u].key = k /\ th[u].ref = "stored"
                         THEN [th[u] EXCEPT !.ref = "pooled"]
                         ELSE th[u]]
        /\ UNCHANGED <<config, order, hits, misses, evictions, now, closed, last, history>>

\* the record behind the *Item thread t holds
Held(t) == IF th[t].ref = "stored" THEN data[th[t].key] ELSE ZeroItem

\* cache.Get / cache.Contains: exists && !item.IsExpired(), read without the store's lock
ReadCheck(t) ==
    /\ th[t].pc = "check"
    /\ th' = [th EXCEPT ![t].pc = IF IsExpired(Held(t), now) THEN "miss"
                                   ELSE IF th[t].op = "contains" THEN "return"
                                   ELSE "access",
                        ![t].value = IF ~IsExpired(Held(t), now) /\ th[t].op = "contains"
                                     THEN 1 ELSE 0]
    /\ UNCHANGED <<config, cache, history>>

\* cache.Get: c.policy.Access(key); atomic.AddInt64(&c.hits, 1)
ReadAccess(t) ==
    /\ th[t].pc = "access"
    /\ hits < MaxCount
    /\ order' = PolicyAccess(kind, order, th[t].key)
    /\ hits' = hits + 1
    /\ th' = [th EXCEPT ![t].pc = "value"]
    /\ UNCHANGED <<config, data, misses, evictions, now, closed, last, history>>

\* cache.Get: return item.Value, true
ReadValue(t) ==
    /\ th[t].pc = "value"
    /\ th' = [th EXCEPT ![t].pc = "return", ![t].value = Held(t).Value]
    /\ UNCHANGED <<config, cache, history>>

\* a faulty miss path: the miss is not counted
ReadMissUncounted(t) ==
    /\ th[t].pc = "miss"
    /\ th' = [th EXCEPT ![t].pc = "return", ![t].ref = "nil", ![t].value = 0]
    /\ UNCHANGED <<config, cache, history>>

\* cache.Get: atomic.AddInt64(&c.misses, 1); return zero, false
ReadMiss(t) ==
    /\ th[t].pc = "miss"
    /\ IF th[t].op = "get"
       THEN misses < MaxCount /\ misses' = misses + 1
       ELSE misses' = misses
    /\ th' = [th EXCEPT ![t].pc = "return", ![t].ref = "nil", ![t].value = 0]
    /\ UNCHANGED <<config, data, order, hits, evictions, now, closed, last, history>>

\* the deferred c.mu.RUnlock(): the call returns
ReadReturn(t) ==
    /\ th[t].pc = "return"
    /\ last' = [Blank EXCEPT !.op = th[t].op, !.key = th[t].key,
                             !.found = th[t].ref # "nil",
                             !.value = IF th[t].op = "get" THEN th[t].value ELSE ZeroValue]
    /\ th' = [th EXCEPT ![t] = Idle]
    /\ UNCHANGED <<config, data, order, hits, misses, evictions, now, closed, history>>

Exclusive(A) ==
    /\ AllIdle
    /\ A
    /\ written' = WrittenAfter(last')
    /\ UNCHANGED <<usedAt, bornAt, clock, replaced, th, calls, before, tasks>>

\* a reader's step, the calls not counted
Uncounted(A) == A /\ UNCHANGED <<calls, before, tasks>>

InitShared == New({"LRU"}, {1}, {0}, {1})

NextShared ==
    \/ \E t \in Threads, k \in Keys2 : Uncounted(ReadBegin(t, "get", k))
    \/ \E t \in Threads, k \in Keys2 : Uncounted(ReadBegin(t, "contains", k))
    \/ \E t \in Threads : Uncounted(ReadLookup(t))
    \/ \E t \in Threads : Uncounted(ReadPurge(t))
    \/ \E t \in Threads : Uncounted(ReadCheck(t))
    \/ \E t \in Threads : Uncounted(ReadAccess(t))
    \/ \E t \in Threads : Uncounted(ReadValue(t))
    \/ \E t \in Threads : Uncounted(ReadMiss(t))
    \/ \E t \in Threads : Uncounted(ReadReturn(t))
    \/ \E k \in Keys2 : Exclusive(Set(k, 1))
    \/ \E k \in Keys2 : Exclusive(SetWithTTL(k, 1, 1))
    \/ \E k \in Keys2 : Exclusive(Delete(k))
    \/ Quiet(Tick)

SpecShared == InitShared /\ [][NextShared]_vars

(***************************************************************************)
(* SpecCounters: gets from several threads at once, between writes, with   *)
(* the count of the calls that returned.  Size and Keys hold the shared    *)
(* lock and run beside the readers.                                        *)
(***************************************************************************)
\* the get of thread t returns: one more call that reported found / not found
Returned(t) ==
    IF th[t].op # "get" THEN calls
    ELSE IF th[t].ref # "nil" THEN [calls EXCEPT !.found = @ + 1]
    ELSE [calls EXCEPT !.missed = @ + 1]

Counted(t) == ReadReturn(t) /\ calls' = Returned(t) /\ UNCHANGED <<before, tasks>>

\* the gets in flight that have done their atomic.AddInt64 already
PastHit == {t \in Threads : th[t].op = "get" /\ th[t].pc \in {"value", "return"}
                               /\ th[t].ref # "nil"}

PastMiss == {t \in Threads : th[t].op = "get" /\ th[t].pc = "return" /\ th[t].ref = "nil"}

InitCounters == New({"LRU"}, {1}, {0}, {1})

NextCounters ==
    \/ \E t \in Threads, k \in Keys2 : Uncounted(ReadBegin(t, "get", k))
    \/ \E t \in Threads : Uncounted(ReadLookup(t))
    \/ \E t \in Threads : Uncounted(ReadPurge(t))
    \/ \E t \in Threads : Uncounted(ReadCheck(t))
    \/ \E t \in Threads : Uncounted(ReadAccess(t))
    \/ \E t \in Threads : Uncounted(ReadValue(t))
    \/ \E t \in Threads : Uncounted(ReadMiss(t))
    \/ \E t \in Threads : Counted(t)
    \/ Exclusive(Set("a", 1))
    \/ Exclusive(SetWithTTL("a", 1, -1))
    \/ Exclusive(Delete("a"))
    \/ Quiet(Size)
    \/ Quiet(ListKeys)

SpecCounters == InitCounters /\ [][NextCounters]_vars

(***************************************************************************)
(* The coordinator's lock c.mu, taken only when thread_safe is true.  It   *)
(* is held shared by every reader in flight (th, and a get_batch in        *)
(* `batch`) and exclusively by a set_batch or delete_batch in `batch`, by  *)
(* the sweeper while it is "sweeping", and by every write that is one step *)
(* of the model.  With thread_safe false nothing is locked; the caller     *)
(* keeps its own calls apart, and the sweeper goroutine runs beside them.  *)
(***************************************************************************)
WriteBatches == {"set_batch", "delete_batch"}

NoCall == AllIdle /\ batch.op = "none"

Running == last.op # "fatal"

\* a faulty RLock: it does not wait for the writer
MayReadAlways == Running

\* c.mu.RLock() succeeds
MayRead ==
    /\ Running
    /\ IF threadSafe THEN batch.op \notin WriteBatches /\ sweeper # "sweeping"
       ELSE NoCall

\* c.mu.Lock() succeeds
MayWrite ==
    /\ Running
    /\ IF threadSafe THEN NoCall /\ sweeper # "sweeping" ELSE NoCall

\* c.mu.Lock() of cleanup succeeds
MaySweep == Running /\ (threadSafe => NoCall)

\* a read that is one step
RLocked(A) == MayRead /\ Quiet(A)

\* a write that is one step
Locked(A) == MayWrite /\ Quiet(A)

\* a reader takes the lock and is in flight
Reads(A) == MayRead /\ Uncounted(A)

(***************************************************************************)
(* SetBatch, GetBatch and DeleteBatch pair by pair: the lock is taken, one *)
(* step runs for each turn of the loop, then the call returns.  batch.from *)
(* keeps the state the batch started from.                                 *)
(***************************************************************************)
BatchLock(op, ks, vs) ==
    /\ batch.op = "none"
    /\ IF op \in WriteBatches THEN MayWrite ELSE MayRead
    /\ batch' = [op |-> op, keys |-> ks, vals |-> vs, i |-> 1, n |-> 0,
                 res |-> EmptyMap, victims |-> << >>,
                 from |-> [data |-> data, order |-> order, evictions |-> evictions]]
    /\ UNCHANGED <<config, cache, history, th, calls, before, sweeper, routines>>

BatchItem ==
    LET k == <<batch.keys[batch.i]>>
        s == SetBatchFrom([data |-> data, order |-> order, evictions |-> evictions,
                           victims |-> batch.victims], k, batch.vals, 1)
        g == GetBatchFrom([data |-> data, order |-> order, hits |-> hits,
                           misses |-> misses, result |-> batch.res], k, 1)
        d == DeleteBatchFrom([data |-> data, order |-> order, count |-> batch.n], k, 1)
    IN  /\ batch.op # "none"
        /\ batch.i <= Len(batch.keys)
        /\ CASE batch.op = "set_batch" ->
                  /\ s.evictions <= MaxCount
                  /\ data' = s.data /\ order' = s.order /\ evictions' = s.evictions
                  /\ batch' = [batch EXCEPT !.i = @ + 1, !.n = @ + 1, !.victims = s.victims]
                  /\ UNCHANGED <<hits, misses>>
             [] batch.op = "get_batch" ->
                  /\ g.hits <= MaxCount + 1 /\ g.misses <= MaxCount + 1
                  /\ data' = g.data /\ order' = g.order
                  /\ hits' = g.hits /\ misses' = g.misses
                  /\ batch' = [batch EXCEPT !.i = @ + 1, !.res = g.result]
                  /\ UNCHANGED evictions
             [] batch.op = "delete_batch" ->
                  /\ data' = d.data /\ order' = d.order
                  /\ batch' = [batch EXCEPT !.i = @ + 1, !.n = d.count]
                  /\ UNCHANGED <<hits, misses, evictions>>
        /\ UNCHANGED <<config, now, closed, last, history, th, calls, before, sweeper, routines>>

BatchReturn ==
    /\ batch.op # "none"
    /\ batch.i > Len(batch.keys)
    /\ last' = [Blank EXCEPT
                  !.op = batch.op, !.keys = batch.keys, !.n = batch.n,
                  !.res = IF batch.op = "set_batch" THEN batch.vals ELSE batch.res,
                  !.ttl = IF batch.op = "set_batch" THEN defaultTTL ELSE 0,
                  !.victims = batch.victims]
    /\ batch' = NoBatch
    /\ UNCHANGED <<config, data, order, hits, misses, evictions, now, closed,
                   history, th, calls, before, sweeper, routines>>

(***************************************************************************)
(* The goroutine of startCleanup.  While "waiting" it sits in the select:  *)
(* a tick of the ticker sends it through cleanup ("sweeping"), the closed  *)
(* stopCleanup channel makes it return ("stopped").  With both ready the   *)
(* select takes either.                                                    *)
(***************************************************************************)
SweepLock ==
    /\ sweeper = "waiting"
    /\ MaySweep
    /\ sweeper' = "sweeping"
    /\ UNCHANGED <<config, cache, history, th, calls, before, batch, routines>>

\* CleanupExpired; a reader that holds one of the swept records holds a
\* record that was reset and pooled
SweepRun ==
    LET r == CleanupExpired(data, now)
    IN  /\ sweeper = "sweeping"
        /\ Running
        /\ data' = r.data
        /\ th' = [t \in Threads |->
                    IF th[t].ref = "stored" /\ th[t].key \notin DOMAIN r.data
                    THEN [th[t] EXCEPT !.ref = "pooled"] ELSE th[t]]
        /\ last' = [Blank EXCEPT !.op = "cleanup", !.n = r.removed]
        /\ sweeper' = "waiting"
        /\ UNCHANGED <<config, order, hits, misses, evictions, now, closed,
                       history, calls, before, batch, routines>>

\* the map is read and written at once without a lock: the runtime may stop
\* the program ("fatal error: concurrent map read and map write"), and every
\* goroutine with it
Fatal ==
    /\ ~threadSafe
    /\ Running
    /\ sweeper = "sweeping"
    /\ ~NoCall
    /\ last' = [Blank EXCEPT !.op = "fatal"]
    /\ th' = [t \in Threads |-> Idle]
    /\ batch' = NoBatch
    /\ sweeper' = "stopped"
    /\ UNCHANGED <<config, data, order, hits, misses, evictions, now, closed,
                   history, calls, before, routines>>

\* a faulty goroutine: it does not return when stopCleanup is closed
SweeperStopIgnored ==
    /\ sweeper = "waiting"
    /\ closed
    /\ UNCHANGED vars

SweeperStop ==
    /\ sweeper = "waiting"
    /\ closed
    /\ sweeper' = "stopped"
    /\ UNCHANGED <<config, cache, history, th, calls, before, batch, routines>>

(***************************************************************************)
(* SpecAtomic: thread_safe = true.  Batches run pair by pair beside a      *)
(* reader, single writes and the sweeper; the entries set with a negative  *)
(* TTL are the expired ones.                                               *)
(***************************************************************************)
InitAtomic == New({"LRU"}, {1, 2}, {1}, {1})

NextAtomic ==
    \/ \E ks \in DistinctKeyLists(Keys2) :
          BatchLock("set_batch", ks, [k \in Range(ks) |-> 2])
    \/ \E ks \in KeyLists(Keys2) : BatchLock("get_batch", ks, EmptyMap)
    \/ \E ks \in KeyLists(Keys2) : BatchLock("delete_batch", ks, EmptyMap)
    \/ BatchItem
    \/ BatchReturn
    \/ \E k \in Keys2 : Reads(ReadBegin("t1", "get", k))
    \/ Uncounted(ReadLookup("t1"))
    \/ Uncounted(ReadPurge("t1"))
    \/ Uncounted(ReadCheck("t1"))
    \/ Uncounted(ReadAccess("t1"))
    \/ Uncounted(ReadValue("t1"))
    \/ Uncounted(ReadMiss("t1"))
    \/ Uncounted(ReadReturn("t1"))
    \/ RLocked(Size)
    \/ Locked(SetWithTTL("a", 1, -1))
    \/ Locked(Clear)
    \/ SweepLock
    \/ SweepRun

SpecAtomic == InitAtomic /\ [][NextAtomic]_vars

(***************************************************************************)
(* SpecConcurrent: thread_safe = true and no TTLs.  Gets of two threads    *)
(* run step by step beside each other, sets run between them.  No entry    *)
(* expires, so no get comes to purge one.                                  *)
(***************************************************************************)
InitConcurrent == New(Kinds, {1, 2}, {0}, {1})

NextConcurrent ==
    \/ \E t \in Threads, k \in Keys3 : Reads(ReadBegin(t, "get", k))
    \/ \E t \in Threads : Uncounted(ReadLookup(t))
    \/ \E t \in Threads : Uncounted(ReadCheck(t))
    \/ \E t \in Threads : Uncounted(ReadAccess(t))
    \/ \E t \in Threads : Uncounted(ReadValue(t))
    \/ \E t \in Threads : Uncounted(ReadMiss(t))
    \/ \E t \in Threads : Uncounted(ReadReturn(t))
    \/ \E k \in Keys3 : Locked(Set(k, 1))

SpecConcurrent == InitConcurrent /\ [][NextConcurrent]_vars

(***************************************************************************)
(* SpecUnsafe: thread_safe = false and default_ttl > 0.  One caller makes  *)
(* its calls one after the other; the sweeper goroutine is not the         *)
(* caller's to hold back.                                                  *)
(***************************************************************************)
InitUnsafe == NewCache({"LRU"}, {1, 2}, {1}, {1}, {FALSE})

NextUnsafe ==
    \/ \E k \in Keys2 : Reads(ReadBegin("t1", "get", k))
    \/ Uncounted(ReadLookup("t1"))
    \/ Uncounted(ReadPurge("t1"))
    \/ Uncounted(ReadCheck("t1"))
    \/ Uncounted(ReadAccess("t1"))
    \/ Uncounted(ReadValue("t1"))
    \/ Uncounted(ReadMiss("t1"))
    \/ Uncounted(ReadReturn("t1"))
    \/ \E k \in Keys2 : Locked(Set(k, 1))
    \/ SweepLock
    \/ SweepRun
    \/ Fatal
    \/ Running /\ Quiet(Tick)

SpecUnsafe == InitUnsafe /\ [][NextUnsafe]_vars

(***************************************************************************)
(* SpecSweeper: the sweeper goroutine from New to Close, for default_ttl   *)
(* below, at and above zero.  The goroutine's select takes a ready case at *)
(* random, so a closed stopCleanup is taken in the end (strong fairness),  *)
(* and a cleanup that holds the lock runs to its end (weak fairness).      *)
(***************************************************************************)
InitSweeper == New({"LRU"}, {1, 2}, {-1, 0, 1}, {1})

NextSweeper ==
    \/ \E k \in Keys2 : Locked(Set(k, 1))
    \/ Running /\ Quiet(Tick)
    \/ Running /\ Quiet(Close)
    \/ SweepLock
    \/ SweepRun
    \/ SweeperStop

SpecSweeper ==
    /\ InitSweeper
    /\ [][NextSweeper]_vars
    /\ WF_vars(SweepRun)
    /\ SF_vars(SweeperStop)

\* SpecSweeps: the same cache and callers; the ticker fires again and again
\* and the lock is free between the callers' operations, so a sweeper that
\* waits takes the lock in the end, and a sweep that began ends.
SpecSweeps ==
    /\ InitSweeper
    /\ [][NextSweeper]_vars
    /\ WF_vars(SweepLock)
    /\ WF_vars(SweepRun)

(***************************************************************************)
(* The mutexes, lock by lock (thread_safe = true).  A sync.RWMutex admits  *)
(* readers while no writer holds it or has announced itself; a writer      *)
(* first shuts out other writers and new readers (pending), then waits for *)
(* the readers that hold the mutex to leave; readers that called RLock in  *)
(* the meantime wait and are admitted together when the writer unlocks.    *)
(* A goroutine's operation is the list of calls it has yet to make: m is   *)
(* the component (c: cache, s: memoryStorage, p: policy), i the call or    *)
(* the statement, k its key.                                               *)
(***************************************************************************)
I(m, i, k) == [m |-> m, i |-> i, k |-> k]

LockCalls == {"RLock", "RWait", "Lock", "LockWait", "RUnlock", "Unlock"}

\* a faulty mutex: no call ever waits
RWReadyAlways(rw, i, r) == TRUE

\* the call returns, or goes on, now
RWReady(rw, i, r) ==
    CASE i = "RWait" -> r \in rw.readers
      [] i = "Lock" -> rw.writer = "none" /\ rw.pending = "none"
      [] i = "LockWait" -> rw.readers = {}
      [] OTHER -> TRUE

\* a faulty Unlock: the readers that wait are not woken
RWAfterNoWake(rw, i, r) ==
    CASE i = "RLock" ->
             IF rw.writer = "none" /\ rw.pending = "none"
             THEN [rw EXCEPT !.readers = @ \cup {r}]
             ELSE [rw EXCEPT !.waiting = @ \cup {r}]
      [] i = "RWait" -> rw
      [] i = "Lock" -> [rw EXCEPT !.pending = r]
      [] i = "LockWait" -> [rw EXCEPT !.writer = r, !.pending = "none"]
      [] i = "RUnlock" -> [rw EXCEPT !.readers = @ \ {r}]
      [] i = "Unlock" -> [rw EXCEPT !.writer = "none"]

\* the mutex after the call
RWAfter(rw, i, r) ==
    CASE i = "RLock" ->
             IF rw.writer = "none" /\ rw.pending = "none"
             THEN [rw EXCEPT !.readers = @ \cup {r}]
             ELSE [rw EXCEPT !.waiting = @ \cup {r}]
      [] i = "RWait" -> rw
      [] i = "Lock" -> [rw EXCEPT !.pending = r]
      [] i = "LockWait" -> [rw EXCEPT !.writer = r, !.pending = "none"]
      [] i = "RUnlock" -> [rw EXCEPT !.readers = @ \ {r}]
      [] i = "Unlock" -> [rw EXCEPT !.writer = "none", !.readers = rw.waiting,
                                    !.waiting = {}]

\* what is left of a call that has to wait
RWRest(rw, h, r) ==
    CASE h.i = "RLock" /\ ~(rw.writer = "none" /\ rw.pending = "none") ->
             <<I(h.m, "RWait", h.k)>>
      [] h.i = "Lock" -> <<I(h.m, "LockWait", h.k)>>
      [] OTHER -> << >>

\* memoryStorage.Get up to its deferred RUnlock
StorageGetCalls(k) == <<I("s", "RLock", k), I("s", "lookup", k), I("s", "RUnlock", k)>>

\* memoryStorage.Get, the expired entry: RUnlock, Lock, delete, Unlock, RLock
PurgeCalls(k) ==
    <<I("s", "RUnlock", k), I("s", "Lock", k), I("s", "purge", k),
      I("s", "Unlock", k), I("s", "RLock", k)>>

StorageCall(i, k) == <<I("s", "Lock", k), I("s", i, k), I("s", "Unlock", k)>>

PolicyCall(i, k) == <<I("p", "Lock", k), I("p", i, k), I("p", "Unlock", k)>>

\* GetBatch's loop
RECURSIVE GetEach(_, _)
GetEach(ks, i) ==
    IF i > Len(ks) THEN << >>
    ELSE StorageGetCalls(ks[i]) \o <<I("c", "check", ks[i])>> \o GetEach(ks, i + 1)

\* the coordinator's operations, call by call
Program(op, k, ks) ==
    CASE op = "get" ->
             <<I("c", "RLock", k)>> \o GetEach(<<k>>, 1) \o <<I("c", "RUnlock", k)>>
      [] op = "get_batch" ->
             <<I("c", "RLock", k)>> \o GetEach(ks, 1) \o <<I("c", "RUnlock", k)>>
      [] op = "set_with_ttl" ->
             <<I("c", "Lock", k)>> \o StorageGetCalls(k)
                 \o <<I("c", "place", k), I("c", "Unlock", k)>>
      [] op = "delete" ->
             <<I("c", "Lock", k)>> \o StorageCall("delete", k)
                 \o <<I("c", "deleted", k), I("c", "Unlock", k)>>
      [] op = "clear" ->
             <<I("c", "Lock", k)>> \o StorageCall("clear", k) \o PolicyCall("clear", k)
                 \o <<I("c", "reset", k), I("c", "Unlock", k)>>
      [] op = "cleanup" ->
             <<I("c", "Lock", k)>> \o StorageCall("cleanup", k) \o <<I("c", "Unlock", k)>>

\* one statement h of goroutine state me: the store, the policy, the counters
\* and the goroutine's own results after it, and the calls it puts first
Effect(h, me) ==
    LET same == [data |-> data, order |-> order, hits |-> hits, misses |-> misses,
                 evictions |-> evictions, me |-> me, push |-> << >>]
        k == h.k
    IN  CASE h.m = "s" /\ h.i = "lookup" ->
                 IF k \notin DOMAIN data THEN [same EXCEPT !.me.found = FALSE]
                 ELSE IF IsExpired(data[k], now)
                      THEN [same EXCEPT !.me.found = FALSE, !.push = PurgeCalls(k)]
                      ELSE [same EXCEPT !.me.found = TRUE]
          [] h.m = "s" /\ h.i = "purge" ->
                 IF k \in DOMAIN data /\ IsExpired(data[k], now)
                 THEN [same EXCEPT !.data = MapDelete(data, k)]
                 ELSE same
          [] h.m = "s" /\ h.i = "set" ->
                 [same EXCEPT !.data = StorageSet(data, k, NewItem(1, me.ttl, now))]
          [] h.m = "s" /\ h.i = "drop" ->
                 [same EXCEPT !.data = StorageDelete(data, me.victim).data]
          [] h.m = "s" /\ h.i = "delete" ->
                 [same EXCEPT !.data = StorageDelete(data, k).data,
                              !.me.found = StorageDelete(data, k).ok]
          [] h.m = "s" /\ h.i = "size" -> [same EXCEPT !.me.n = StorageSize(data)]
          [] h.m = "s" /\ h.i = "cleanup" ->
                 [same EXCEPT !.data = CleanupExpired(data, now).data,
                              !.me.n = CleanupExpired(data, now).removed]
          [] h.m = "s" /\ h.i = "clear" -> [same EXCEPT !.data = StorageClear(data)]
          [] h.m = "p" /\ h.i = "access" ->
                 [same EXCEPT !.order = PolicyAccess(kind, order, k)]
          [] h.m = "p" /\ h.i = "evict" ->
                 [same EXCEPT !.order = PolicyEvict(kind, order).order,
                              !.me.victim = PolicyEvict(kind, order).key,
                              !.me.found = PolicyEvict(kind, order).ok]
          [] h.m = "p" /\ h.i = "remove" -> [same EXCEPT !.order = PolicyRemove(order, k)]
          [] h.m = "p" /\ h.i = "clear" -> [same EXCEPT !.order = PolicyClear(order)]
          [] h.m = "c" /\ h.i = "check" ->
                 IF me.found
                 THEN [same EXCEPT !.push = PolicyCall("access", k) \o <<I("c", "hit", k)>>]
                 ELSE [same EXCEPT !.push = <<I("c", "miss", k)>>]
          [] h.m = "c" /\ h.i = "hit" -> [same EXCEPT !.hits = (hits + 1) % (MaxCount + 1)]
          [] h.m = "c" /\ h.i = "miss" ->
                 [same EXCEPT !.misses = (misses + 1) % (MaxCount + 1)]
          [] h.m = "c" /\ h.i = "place" ->
                 IF me.found
                 THEN [same EXCEPT !.push = StorageCall("set", k) \o PolicyCall("access", k)]
                 ELSE [same EXCEPT !.push =
                          <<I("s", "RLock", k), I("s", "size", k), I("s", "RUnlock", k),
                            I("c", "room", k)>>
                          \o StorageCall("set", k) \o PolicyCall("access", k)]
          [] h.m = "c" /\ h.i = "room" ->
                 IF me.n >= capacity
                 THEN [same EXCEPT !.push = PolicyCall("evict", k) \o <<I("c", "victim", k)>>]
                 ELSE same
          [] h.m = "c" /\ h.i = "victim" ->
                 IF me.found
                 THEN [same EXCEPT !.push = StorageCall("drop", k) \o <<I("c", "evicted", k)>>]
                 ELSE same
          [] h.m = "c" /\ h.i = "evicted" ->
                 [same EXCEPT !.evictions = (evictions + 1) % (MaxCount + 1)]
          [] h.m = "c" /\ h.i = "deleted" ->
                 IF me.found THEN [same EXCEPT !.push = PolicyCall("remove", k)] ELSE same
          [] h.m = "c" /\ h.i = "reset" ->
                 [same EXCEPT !.hits = 0, !.misses = 0, !.evictions = 0]

\* goroutine r calls an operation
Begin(r, op, k, ks, ttl) ==
    /\ run[r].op = "none"
    /\ run' = [run EXCEPT ![r] = [NoRun EXCEPT !.op = op, !.key = k,
                                               !.ttl = ClampTTL(ttl, maxTTL),
                                               !.todo = Program(op, k, ks)]]
    /\ UNCHANGED <<config, cache, history, th, calls, before, sweeper, batch, mu>>

\* the ticker fires
SweepBegin ==
    /\ sweeper = "waiting"
    /\ sweeper' = "sweeping"
    /\ run' = [run EXCEPT !["sweeper"] = [NoRun EXCEPT !.op = "cleanup",
                                                        !.todo = Program("cleanup", NoKey, << >>)]]
    /\ UNCHANGED <<config, cache, history, th, calls, before, batch, mu>>

\* goroutine r makes its next call or runs its next statement; with the last
\* one the operation returns
Step(r) ==
    LET me == run[r]
        h == Head(me.todo)
        locks == h.i \in LockCalls
        e == IF locks THEN [data |-> data, order |-> order, hits |-> hits,
                            misses |-> misses, evictions |-> evictions, me |-> me,
                            push |-> RWRest(mu[h.m], h, r)]
             ELSE Effect(h, me)
        todo == e.push \o Tail(me.todo)
    IN  /\ me.op # "none"
        /\ locks => RWReady(mu[h.m], h.i, r)
        /\ mu' = IF locks THEN [mu EXCEPT ![h.m] = RWAfter(mu[h.m], h.i, r)] ELSE mu
        /\ data' = e.data
        /\ order' = e.order
        /\ hits' = e.hits
        /\ misses' = e.misses
        /\ evictions' = e.evictions
        /\ run' = [run EXCEPT ![r] = IF todo = << >> THEN NoRun
                                     ELSE [e.me EXCEPT !.todo = todo]]
        /\ last' = IF todo = << >>
                   THEN [Blank EXCEPT !.op = me.op]
                   ELSE last
        /\ sweeper' = IF todo = << >> /\ r = "sweeper" THEN "waiting" ELSE sweeper
        /\ UNCHANGED <<config, now, closed, history, th, calls, before, batch>>

(***************************************************************************)
(* SpecLocks: two caller goroutines and the sweeper, every interleaving of *)
(* their calls.  Entries set with a negative TTL are the expired ones; the *)
(* clock stands still.  Fairness, where a specification asks for it: a     *)
(* goroutine that can go on does so in the end, and one that calls Lock    *)
(* again and again gets the mutex in the end (sync.Mutex hands a starving  *)
(* waiter the lock), which is strong fairness of every goroutine's steps.  *)
(***************************************************************************)
InitLocks == New({"LRU"}, {1}, {1}, {1})

NextLocks ==
    \/ \E r \in Threads : Begin(r, "get", "a", << >>, 0)
    \/ Begin("t1", "get_batch", NoKey, <<"a", "b">>, 0)
    \/ Begin("t2", "set_with_ttl", "a", << >>, -1)
    \/ Begin("t2", "set_with_ttl", "b", << >>, 0)
    \/ Begin("t2", "delete", "a", << >>, 0)
    \/ Begin("t2", "clear", NoKey, << >>, 0)
    \/ SweepBegin
    \/ \E r \in Routines : Step(r)

SpecLocks == InitLocks /\ [][NextLocks]_vars

(***************************************************************************)
(* SpecFair: two readers of one key, a writer that sets that key expired   *)
(* and a second key that takes its place, and the sweeper, under the       *)
(* fairness above.                                                         *)
(***************************************************************************)
NextFair ==
    \/ \E r \in Threads : Begin(r, "get", "a", << >>, 0)
    \/ Begin("t2", "set_with_ttl", "a", << >>, -1)
    \/ Begin("t2", "set_with_ttl", "b", << >>, 0)
    \/ SweepBegin
    \/ \E r \in Routines : Step(r)

SpecFair ==
    /\ InitLocks
    /\ [][NextFair]_vars
    /\ \A r \in Routines : SF_vars(Step(r))

(***************************************************************************)
(* The claims.                                                             *)
(***************************************************************************)

\* C1: after every completed operation the store holds at most `capacity`
\* entries: size() <= capacity.
C1_SizeWithinCapacity == StorageSize(data) <= capacity

\* C2: after every completed operation the policy tracks exactly the keys
\* the store holds, so store.size() = policy.size().
C2_PolicyTracksStore ==
    /\ Range(order) = StorageKeys(data)
    /\ PolicySize(order) = StorageSize(data)

\* C3: a get that reports its key as found returns the value of the latest
\* set of that key (no set can run while the get holds the shared lock); it
\* never returns the zero value of a record that was reset meanwhile.
C3_GetReturnsLatestSet ==
    (last.op = "get" /\ last.found) =>
        /\ written[last.key].live
        /\ last.value = written[last.key].value

\* C4: in a single thread, a get of a key returns the value of the most
\* recent set of that key, when no delete, clear, eviction or expiry of the
\* key came in between.
C4_GetReturnsLastSet ==
    (last.op = "get" /\ WriteLive(last.key) /\ WriteFresh(last.key)) =>
        /\ last.found
        /\ last.value = written[last.key].value

C4_Witness ==
    /\ last.op = "get"
    /\ last.found
    /\ last.value = 2
    /\ written[last.key].value = 2
    /\ written[last.key].at < now
    /\ hits = 1

\* C5: a set or set_with_ttl of a key that is stored and not expired replaces
\* its value and TTL and leaves the size, the set of stored keys and the
\* evictions counter unchanged, also when the cache is full.
C5_UpdateInPlace ==
    [][(/\ last'.op \in {"set", "set_with_ttl"}
        /\ last'.key \in DOMAIN data
        /\ ~IsExpired(data[last'.key], now))
       => (/\ DOMAIN data' = DOMAIN data
           /\ StorageSize(data') = StorageSize(data)
           /\ evictions' = evictions
           /\ last'.victims = << >>
           /\ data'[last'.key].Value = last'.value
           /\ data'[last'.key].HasTTL = (EffectiveTTL(last'.ttl) # 0)
           /\ (EffectiveTTL(last'.ttl) # 0 =>
                  data'[last'.key].ExpiresAt = now + EffectiveTTL(last'.ttl)))]_vars

C5_Witness ==
    /\ last.op = "set"
    /\ replaced
    /\ last.value = 2
    /\ capacity = 2
    /\ StorageSize(data) = capacity
    /\ data[last.key].Value = 2
    /\ evictions = 0
    /\ now > 0

\* What C6, C7 and C8 say of a step that sets a new key on a full cache: the
\* one key evicted is `victim`, every other stored key keeps its entry, and
\* the evictions counter goes up by one.
InsertsOnFull ==
    /\ last'.op = "set"
    /\ last'.key \notin DOMAIN data
    /\ StorageSize(data) >= capacity

EvictsExactly(victim) ==
    /\ victim \in DOMAIN data
    /\ last'.victims = <<victim>>
    /\ DOMAIN data' = (DOMAIN data \ {victim}) \cup {last'.key}
    /\ \A k \in DOMAIN data \ {victim} : data'[k] = data[k]
    /\ evictions' = evictions + 1

\* a step that reads or sets again a key the store holds
Reaccess == last'.op \in {"get", "set"} /\ last'.key \in DOMAIN data

\* C6: with the LRU policy and no TTLs, a set of a new key on a full cache
\* evicts exactly the stored key whose latest access (set, update or get hit)
\* is the oldest; the other keys stay and evictions goes up by one.
C6_LRUEvictsLeastRecentlyUsed ==
    [][(kind = "LRU" /\ InsertsOnFull) => EvictsExactly(Oldest(usedAt))]_vars

\* keys accessed in the order a, b, c, a and then d inserted: b was evicted
C6_Witness ==
    /\ kind = "LRU"
    /\ capacity = 3
    /\ last.op = "set"
    /\ last.key = "d"
    /\ last.victims = <<"b">>
    /\ DOMAIN data = {"a", "c", "d"}
    /\ bornAt["a"] = 1
    /\ bornAt["c"] = 3
    /\ usedAt["a"] = 4
    /\ clock = 5

\* C7: with the FIFO policy the victim is the tracked key that was inserted
\* first, and an access to a tracked key leaves the order as it is: a set of
\* a new key on a full cache evicts the stored key that was inserted first,
\* whatever was read or updated since.
C7_FIFOEvictsFirstInserted ==
    [][/\ (kind = "FIFO" /\ InsertsOnFull) => EvictsExactly(Oldest(bornAt))
       /\ (kind = "FIFO" /\ Reaccess) => order' = order]_vars

\* a, b inserted, a accessed again (access 3), then c inserted: a was evicted
C7_Witness ==
    /\ kind = "FIFO"
    /\ capacity = 2
    /\ last.op = "set"
    /\ last.key = "c"
    /\ last.victims = <<"a">>
    /\ bornAt["b"] = 2
    /\ usedAt["b"] = 2
    /\ bornAt["c"] = 4
    /\ clock = 4
    /\ evictions = 1

\* C8: with the LIFO policy the victim is the tracked key that was inserted
\* last, and an access to a tracked key leaves the order as it is: a set of
\* a new key on a full cache evicts the stored key that was inserted last,
\* and the keys inserted before it stay.
C8_LIFOEvictsLastInserted ==
    [][/\ (kind = "LIFO" /\ InsertsOnFull) => EvictsExactly(Newest(bornAt))
       /\ (kind = "LIFO" /\ Reaccess) => order' = order]_vars

\* a, b inserted, a accessed again, then c inserted: b was evicted
C8_Witness ==
    /\ kind = "LIFO"
    /\ capacity = 2
    /\ last.op = "set"
    /\ last.key = "c"
    /\ last.victims = <<"b">>
    /\ bornAt["a"] = 1
    /\ usedAt["a"] = 3
    /\ bornAt["c"] = 4
    /\ "a" \in DOMAIN data

\* C9: an entry stored at time t with effective TTL d > 0, and not
\* overwritten, deleted or evicted since, is found by get, get_batch and
\* contains at every time <= t + d and by none of them at any time > t + d.
C9_FoundUntilExpiry ==
    /\ \A k \in Keys :
          (last.op \in {"get", "contains"} /\ last.key = k
              /\ WriteLive(k) /\ written[k].ttl > 0)
          => (last.found <=> now <= written[k].at + written[k].ttl)
    /\ \A k \in Range(last.keys) :
          (last.op = "get_batch" /\ WriteLive(k) /\ written[k].ttl > 0)
          => (k \in DOMAIN last.res <=> now <= written[k].at + written[k].ttl)

C9_Witness ==
    /\ last.op = "get_batch"
    /\ Len(last.keys) = 2
    /\ \E k \in Range(last.keys) :
          /\ WriteLive(k) /\ written[k].ttl > 0
          /\ now = written[k].at + written[k].ttl
          /\ k \in DOMAIN last.res
    /\ \E k \in Range(last.keys) :
          /\ WriteLive(k) /\ written[k].ttl > 0
          /\ now > written[k].at + written[k].ttl
          /\ k \notin DOMAIN last.res

C11_ClampToMaxTTL ==
    [][last'.op \in {"set", "set_with_ttl"}
       => /\ last'.ttl > maxTTL =>
                /\ data'[last'.key].HasTTL
                /\ data'[last'.key].ExpiresAt = now + maxTTL
          /\ data'[last'.key].HasTTL =>
                data'[last'.key].ExpiresAt <= now + maxTTL]_vars

\* C12: set_batch of the single pair (k, v) leaves the cache in the state
\* set(k, v) at the same instant leaves it in: the same entry with the same
\* expiry (default_ttl clamped to max_ttl), the same eviction, the same
\* counters.
C12_BatchOfOneIsSet ==
    [][(last'.op = "set_batch" /\ Len(last'.keys) = 1)
       => LET k == last'.keys[1]
              st == StoreItem(kind, capacity, CacheState, k, last'.res[k],
                              ClampTTL(defaultTTL, maxTTL), now)
          IN  /\ data' = st.data
              /\ order' = st.order
              /\ evictions' = st.evictions
              /\ hits' = hits
              /\ misses' = misses]_vars

\* C13: every get adds one to exactly one of hits and misses, to hits iff it
\* returns found: with gets running in several threads at once, hits and
\* misses are the numbers of the gets that returned found and not found
\* (plus those in flight that have counted already), so N finished gets
\* have added N; a step of set, delete, size or keys (a step of no reader)
\* leaves hits and misses as they are.
C13_GetsAreCounted ==
    [][/\ hits' = calls'.found + Cardinality(PastHit')
       /\ misses' = calls'.missed + Cardinality(PastMiss')
       /\ th' = th => (hits' = hits /\ misses' = misses)]_vars

\* two gets in flight at once, one has counted a hit and one a miss
C13_Witness ==
    /\ PastHit # {}
    /\ PastMiss # {}
    /\ hits = 1
    /\ misses = 1
    /\ calls = [found |-> 0, missed |-> 0]

\* what two later sets of new keys, c and then d, evict and leave stored,
\* when they start from the store d and the policy order o
LaterSets(d, o) ==
    LET s0 == [data |-> d, order |-> o, evictions |-> 0, victims |-> << >>]
        s1 == StoreItem(kind, capacity, s0, "c", 1, ClampTTL(defaultTTL, maxTTL), now)
        s2 == StoreItem(kind, capacity, s1, "d", 1, ClampTTL(defaultTTL, maxTTL), now)
    IN  [victims |-> s2.victims, keys |-> DOMAIN s2.data]

\* C14: contains(k) returns true iff k is stored and not expired; it leaves
\* the policy's order and the three counters as they are, and in an LRU
\* cache it does not change which keys later sets evict.
C14_ContainsIsInvisible ==
    [][last'.op = "contains"
       => /\ last'.found = (/\ last'.key \in DOMAIN data
                            /\ ~IsExpired(data[last'.key], now))
          /\ order' = order
          /\ hits' = hits /\ misses' = misses /\ evictions' = evictions
          /\ kind = "LRU" => LaterSets(data', order') = LaterSets(data, order)]_vars

\* C15 as stated: across every sequence of operations hits, misses and
\* evictions are non-negative and never decrease.
C15_CountersNeverDecrease ==
    [][/\ hits' >= hits /\ misses' >= misses /\ evictions' >= evictions
       /\ hits' >= 0 /\ misses' >= 0 /\ evictions' >= 0]_vars

\* C15, amended: hits, misses and evictions are non-negative, and no
\* operation other than clear decreases any of them.
C15_CountersGrowUntilClear ==
    [][/\ hits' >= 0 /\ misses' >= 0 /\ evictions' >= 0
       /\ last'.op # "clear" =>
             (hits' >= hits /\ misses' >= misses /\ evictions' >= evictions)]_vars

C15_Witness ==
    /\ last.op = "delete"
    /\ hits = 1
    /\ misses = 1
    /\ evictions = 1

\* C16: right after clear the store is empty (size 0, no keys), the policy
\* tracks no key, so its next evict returns ok = false, and hits, misses
\* and evictions are 0.
C16_ClearEmptiesAll ==
    [][last'.op = "clear"
       => /\ StorageSize(data') = 0
          /\ StorageKeys(data') = {}
          /\ PolicySize(order') = 0
          /\ ~PolicyEvict(kind, order').ok
          /\ hits' = 0 /\ misses' = 0 /\ evictions' = 0]_vars

C16_Witness ==
    /\ last.op = "clear"
    /\ StorageSize(data) = 0
    /\ order = << >>
    /\ closed

\* C19: delete_batch returns the number of keys it removed from the store:
\* each distinct listed key that was stored counts once; the removed keys
\* leave the policy too, and what was not listed stays as it was.
C19_DeleteBatchCountsRemovals ==
    [][last'.op = "delete_batch"
       => LET removed == Range(last'.keys) \cap DOMAIN data
          IN  /\ last'.n = Cardinality(removed)
              /\ DOMAIN data' = DOMAIN data \ removed
              /\ \A k \in DOMAIN data' : data'[k] = data[k]
              /\ order' = SelectSeq(order, LAMBDA k : k \notin removed)
              /\ hits' = hits /\ misses' = misses /\ evictions' = evictions]_vars

\* a key listed twice was removed and counted once; the other key stays
C19_Witness ==
    /\ last.op = "delete_batch"
    /\ last.keys = <<"a", "a">>
    /\ last.n = 1
    /\ DOMAIN data = {"b"}
    /\ order = <<"b">>

\* C20: delete(k) returns true iff k was in the store, and then k is in
\* neither the store nor the policy; a delete right after a delete of the
\* same key returns false; a delete of an absent key leaves the store, the
\* policy order and the counters as they are.
C20_DeleteOnce ==
    [][last'.op = "delete"
       => /\ last'.found = (last'.key \in DOMAIN data)
          /\ last'.key \notin DOMAIN data'
          /\ last'.found => last'.key \notin Range(order')
          /\ (last.op = "delete" /\ last.key = last'.key) => ~last'.found
          /\ ~last'.found => /\ data' = data
                             /\ order' = order
                             /\ hits' = hits /\ misses' = misses
                             /\ evictions' = evictions]_vars

C20_Witness ==
    /\ last.op = "delete"
    /\ last.key = "a"
    /\ last.found
    /\ DOMAIN data = {"b"}
    /\ order = <<"b">>

\* the keys that are stored and not expired
LiveKeys == {k \in DOMAIN data : ~IsExpired(data[k], now)}

\* C17: get_batch returns exactly the listed keys that are stored and not
\* expired, each with its current value; hits grows by the number of list
\* positions whose key is live (a key listed twice counts twice), misses by
\* the number of the other positions.
C17_GetBatchCountsPositions ==
    [][last'.op = "get_batch"
       => LET ks == last'.keys
          IN  /\ DOMAIN last'.res = Range(ks) \cap LiveKeys
              /\ \A k \in DOMAIN last'.res : last'.res[k] = data[k].Value
              /\ hits' = hits + Cardinality({i \in 1..Len(ks) : ks[i] \in LiveKeys})
              /\ misses' = misses
                    + Cardinality({i \in 1..Len(ks) : ks[i] \notin LiveKeys})]_vars

\* a live key listed twice: one entry in the result, two hits
C17_Witness ==
    /\ last.op = "get_batch"
    /\ last.keys = <<"a", "a">>
    /\ DOMAIN last.res = {"a"}
    /\ last.res["a"] = 2
    /\ hits = 2
    /\ misses = 0

\* C18: set_batch(M) returns |M|; when the keys of M that are not stored yet
\* fit into the free capacity the batch evicts nothing, and a get_batch of
\* the keys of M that follows a batch that evicted nothing returns exactly M.
C18_SetBatchThenGetBatch ==
    [][/\ last'.op = "set_batch" =>
             /\ last'.n = Cardinality(DOMAIN last'.res)
             /\ Cardinality(DOMAIN data \cup DOMAIN last'.res) <= capacity =>
                   last'.victims = << >>
       /\ (/\ last.op = "set_batch"
           /\ last.victims = << >>
           /\ last'.op = "get_batch"
           /\ Range(last'.keys) = DOMAIN last.res) => last'.res = last.res]_vars

\* {a: 1, b: 2} was set into the free capacity and then read back
C18_Witness ==
    /\ before.op = "set_batch"
    /\ before.n = 2
    /\ before.victims = << >>
    /\ before.res = [k \in {"a", "b"} |-> IF k = "a" THEN 1 ELSE 2]
    /\ last.op = "get_batch"
    /\ last.keys = <<"b", "a">>
    /\ last.res = before.res
    /\ hits = 2

\* C22: with capacity 1, under every built-in policy, a set of a key other
\* than the one stored key evicts exactly that key, leaves size() = 1 and
\* raises evictions by exactly one.
C22_CapacityOne ==
    [][(/\ capacity = 1
        /\ last'.op = "set"
        /\ StorageSize(data) = 1
        /\ last'.key \notin DOMAIN data)
       => (/\ Range(last'.victims) = DOMAIN data
           /\ Len(last'.victims) = 1
           /\ DOMAIN data' = {last'.key}
           /\ StorageSize(data') = 1
           /\ evictions' = evictions + 1)]_vars

\* C24: evictions is raised only when an eviction removes an entry from the
\* store: a set whose victim is no longer stored (purged by expiry) leaves
\* the counter as it is, and a set whose victim is stored raises it by one.
C24_EvictionsCountRemovals ==
    [][last'.op \in {"set", "set_with_ttl"}
       => LET stored == DOMAIN StorageGet(data, last'.key, now).data
              removed == {k \in Range(last'.victims) : k \in stored}
          IN  evictions' = evictions + Cardinality(removed)]_vars

\* C29: for each built-in policy, evict() returns ok = false iff the policy
\* tracks no key; when it returns (k, true), k was tracked before the call,
\* is not tracked after it, and size() has gone down by exactly one.
C29_EvictRemovesItsVictim ==
    [][last'.op = "evict"
       => /\ last'.found <=> PolicySize(order) # 0
          /\ last'.found =>
                /\ last'.key \in Range(order)
                /\ last'.key \notin Range(order')
                /\ Range(order') = Range(order) \ {last'.key}
                /\ PolicySize(order') = PolicySize(order) - 1
          /\ ~last'.found => order' = order]_vars

\* three keys were tracked; after an access, evict returned one of them
C29_Witness ==
    /\ last.op = "evict"
    /\ last.found
    /\ before.op = "access"
    /\ PolicySize(order) = 2
    /\ last.key \notin Range(order)

\* the sequence s without its element at position i
Without(s, i) == SubSeq(s, 1, i - 1) \o SubSeq(s, i + 1, Len(s))

\* C30: for each built-in policy, remove(k) of a tracked key removes only k
\* and keeps the relative order of the other tracked keys; remove(k) of an
\* untracked key leaves the tracked set, the order and size() unchanged.
C30_RemoveOnlyTheKey ==
    [][last'.op = "remove"
       => /\ last'.key \in Range(order) =>
                /\ \E i \in 1..Len(order) :
                      order[i] = last'.key /\ order' = Without(order, i)
                /\ PolicySize(order') = PolicySize(order) - 1
          /\ last'.key \notin Range(order) =>
                /\ order' = order
                /\ PolicySize(order') = PolicySize(order)]_vars

\* FIFO tracks a, b, c; b is accessed and then removed from the middle
C30_Witness ==
    /\ kind = "FIFO"
    /\ before.op = "access"
    /\ before.key = "b"
    /\ last.op = "remove"
    /\ last.key = "b"
    /\ order = <<"a", "c">>

\* the capacity C28 says a cache built with the options opts has
Coerced(opts) ==
    IF opts = << >> \/ opts[Len(opts)] <= 0 THEN 100 ELSE opts[Len(opts)]

\* C28: the capacity the cache enforces and reports in stats() is n when
\* with_capacity(n) is given n > 0, and 100 when n <= 0 or when no capacity
\* option is given: a new cache has that capacity and keeps it, stats()
\* reports it, and a set evicts iff the key is new and that many are stored.
C28_CapacityOption ==
    [][/\ last'.op = "new" => capacity' = Coerced(last'.opts)
       /\ last'.op # "new" => capacity' = capacity
       /\ last'.op = "stats" => last'.res.capacity = capacity
       /\ last'.op = "set" =>
             /\ last'.victims # << >> <=>
                   (last'.key \notin DOMAIN data /\ StorageSize(data) >= capacity)
             /\ StorageSize(data') <= capacity]_vars

\* a cache built with with_capacity(2) and then with_capacity(0) reports 100
C28_Witness ==
    /\ before.op = "new"
    /\ before.opts = <<2, 0>>
    /\ last.op = "stats"
    /\ last.res.capacity = 100
    /\ capacity = 100

\* a get of the key that the latest contains reported as stored, with no
\* set, delete, clear, eviction or sweeper tick since
GetOfSeen ==
    /\ last'.op = "get"
    /\ before.op = "contains"
    /\ before.found
    /\ before.key = last'.key

\* C25: if contains(k) returned true, the next get(k) of the same thread,
\* with no set, delete, clear, eviction or sweeper tick in between, returns
\* found.
C25_ContainsThenGet == [][GetOfSeen => last'.found]_vars

\* C25, amended: ... returns found, provided the entry's TTL has not run
\* out between the two calls.
C25_ContainsThenGetInTime ==
    [][(GetOfSeen /\ WriteFresh(last'.key))
       => /\ last'.found
          /\ WriteLive(last'.key)
          /\ last'.value = written[last'.key].value]_vars

\* contains(k) was true, the clock went on to k's deadline, get(k) found it
C25_Witness ==
    /\ last.op = "get"
    /\ last.found
    /\ before.op = "contains"
    /\ before.found
    /\ before.key = last.key
    /\ written[last.key].ttl > 0
    /\ now = written[last.key].at + written[last.key].ttl
    /\ hits = 1

\* what a read can see of the store: the live keys and their values
LiveView == [k \in LiveKeys |-> data[k].Value]

\* what a batch of one step would leave or return, started where this one
\* started
SetAtOnce ==
    SetBatchFrom([data |-> batch.from.data, order |-> batch.from.order,
                  evictions |-> batch.from.evictions, victims |-> << >>],
                 batch.keys, batch.vals, 1)

DeleteAtOnce ==
    DeleteBatchFrom([data |-> batch.from.data, order |-> batch.from.order, count |-> 0],
                    batch.keys, 1)

GetAtOnce ==
    GetBatchFrom([data |-> batch.from.data, order |-> batch.from.order,
                  hits |-> 0, misses |-> 0, result |-> EmptyMap], batch.keys, 1)

\* C21: with thread_safe = true a batch is atomic.  While a set_batch or
\* delete_batch is in flight no reader and no sweeper tick is in flight and
\* no other call returns, and the batch leaves the state that all its pairs
\* applied at once would leave; while a get_batch is in flight no write and
\* no sweeper tick takes effect, and it returns what its lookups done at
\* once would return.
C21_BatchesAreAtomic ==
    [][/\ batch.op \in WriteBatches =>
             /\ AllIdle
             /\ sweeper # "sweeping"
             /\ th' = th
             /\ sweeper' = sweeper
             /\ last' = last \/ (batch' = NoBatch /\ last'.op = batch.op)
       /\ batch.op = "get_batch" =>
             /\ sweeper # "sweeping"
             /\ sweeper' = sweeper
             /\ last' = last \/ last'.op \notin Writers
             /\ LiveView' = LiveView
       /\ (batch.op = "set_batch" /\ batch' = NoBatch) =>
             /\ data = SetAtOnce.data
             /\ order = SetAtOnce.order
             /\ evictions = SetAtOnce.evictions
             /\ last'.n = Len(batch.keys)
       /\ (batch.op = "delete_batch" /\ batch' = NoBatch) =>
             /\ data = DeleteAtOnce.data
             /\ order = DeleteAtOnce.order
             /\ last'.n = DeleteAtOnce.count
       /\ (batch.op = "get_batch" /\ batch' = NoBatch) =>
             last'.res = GetAtOnce.result]_vars

\* a set_batch of two pairs has applied the first; a get had run before it
C21_Witness ==
    /\ threadSafe
    /\ batch.op = "set_batch"
    /\ Len(batch.keys) = 2
    /\ batch.i = 2
    /\ batch.keys[1] \in DOMAIN data
    /\ batch.keys[2] \notin DOMAIN data
    /\ hits = 1
    /\ AllIdle

\* C23: with thread_safe = true and no TTLs, under every interleaving of
\* sets and gets of several threads, size() <= capacity and the store's key
\* set is the policy's key set, after each call and between.
C23_ConcurrentSetGet ==
    /\ threadSafe
    /\ StorageSize(data) <= capacity
    /\ StorageKeys(data) = Range(order)
    /\ Len(order) = StorageSize(data)

\* the cache is full and has evicted; two gets are in flight, one past its
\* policy.Access and one before it
C23_Witness ==
    /\ capacity = 2
    /\ StorageSize(data) = 2
    /\ evictions = 1
    /\ th["t1"].pc = "value"
    /\ th["t2"].pc = "access"
    /\ th["t1"].key # th["t2"].key

\* C27: with thread_safe = false, default_ttl > 0 and a caller that makes
\* its calls one after the other, a sweeper tick never runs while a call of
\* the caller is in progress: the sweeper's scan of the map and the caller's
\* accesses to it exclude each other, and the program is never stopped by
\* the runtime for touching the map from two goroutines.
C27_SweeperKeptApart ==
    /\ ~(sweeper = "sweeping" /\ ~NoCall)
    /\ last.op # "fatal"

\* C26: a sweeper exists iff default_ttl > 0; after close() the sweeper
\* goroutine stops in the end and from then on runs no cleanup, and close()
\* on a cache built with default_ttl = 0 changes nothing
C26_SweeperLifecycle ==
    /\ [](sweeper # "none" <=> defaultTTL > 0)
    /\ closed ~> sweeper = "stopped"
    /\ [][sweeper = "stopped" =>
            /\ sweeper' = "stopped"
            /\ last'.op = "cleanup" => last' = last]_vars
    /\ [][(defaultTTL = 0 /\ last'.op = "close") =>
            UNCHANGED <<config, data, order, hits, misses, evictions, now,
                        closed, tasks>>]_vars

\* the sweeper has stopped after close, and an entry that expired since
\* stays in the store
C26_Witness ==
    /\ closed
    /\ sweeper = "stopped"
    /\ \E k \in DOMAIN data : IsExpired(data[k], now)

\* the keys whose deadline has passed at the current time
Due == {k \in DOMAIN data : data[k].HasTTL /\ now > data[k].ExpiresAt}

\* C31: cleanup_expired removes exactly the entries that are expired at the
\* time of the call and returns their number; every entry without a TTL and
\* every entry whose deadline is still ahead stays, with its value
C31_CleanupRemovesExactlyExpired ==
    [][last'.op = "cleanup" =>
        /\ DOMAIN data' = DOMAIN data \ Due
        /\ last'.n = Cardinality(Due)
        /\ \A k \in DOMAIN data \ Due : data'[k] = data[k]]_vars

\* a sweep removed an expired entry and left one that has no TTL
C31_Witness ==
    /\ last.op = "cleanup"
    /\ last.n = 1
    /\ \E k \in DOMAIN data : ~data[k].HasTTL

\* C33: a sweeper tick changes only the store, and only by removing expired
\* entries: the policy's order, the counters and every entry that is not
\* expired stay as they were
C33_CleanupChangesOnlyStore ==
    [][last'.op = "cleanup" =>
        /\ order' = order
        /\ <<hits', misses', evictions'>> = <<hits, misses, evictions>>
        /\ DOMAIN data' \subseteq DOMAIN data
        /\ \A k \in DOMAIN data :
              IF IsExpired(data[k], now) THEN TRUE
              ELSE k \in DOMAIN data' /\ data'[k] = data[k]
        /\ <<config', now', closed'>> = <<config, now, closed>>]_vars

\* a sweep removed an entry whose key the policy still tracks, after a hit
C33_Witness ==
    /\ last.op = "cleanup"
    /\ last.n = 1
    /\ hits = 1
    /\ \E k \in Range(order) : k \notin DOMAIN data

\* the keys the completed read was called with
Touched(l) ==
    IF l.op \in {"get", "contains"} THEN {l.key}
    ELSE IF l.op = "get_batch" THEN Range(l.keys)
    ELSE {}

\* what the completed read reported for k: not found
NotFound(l, k) == IF l.op = "get_batch" THEN k \notin DOMAIN l.res ELSE ~l.found

\* C32 as stated: when get, get_batch or contains touches a stored, expired
\* key k, the call reports not-found, k is no longer in keys() and size() is
\* one smaller after the call
C32_ExpiredReadPurgesOne ==
    [][\A k \in Due \cap Touched(last') :
          /\ NotFound(last', k)
          /\ k \notin StorageKeys(data')
          /\ StorageSize(data') = StorageSize(data) - 1]_vars

\* C32, amended: when get, get_batch or contains touches a stored, expired
\* key k, the call reports not-found and k is no longer in keys(); size() is
\* smaller by the number of distinct expired keys the call touched, which
\* is one for get and contains
C32_ExpiredReadPurges ==
    [][\A k \in Due \cap Touched(last') :
          /\ NotFound(last', k)
          /\ k \notin StorageKeys(data')
          /\ StorageSize(data') =
                StorageSize(data) - Cardinality(Due \cap Touched(last'))
          /\ last'.op \in {"get", "contains"} =>
                StorageSize(data') = StorageSize(data) - 1]_vars

\* size() returned 2, then a get_batch of both keys found neither and the
\* store is empty
C32_Witness ==
    /\ before.op = "size"
    /\ before.n = 2
    /\ last.op = "get_batch"
    /\ Range(last.keys) = {"a", "b"}
    /\ last.res = EmptyMap
    /\ StorageSize(data) = 0

\* C34: with default_ttl > 0 and the sweeper scheduled fairly, every entry
\* that becomes expired is removed from the store in the end, whether or not
\* a caller touches its key again, unless close() is called
C34_ExpiredEntriesAreSwept ==
    \A k \in Keys2 :
        (defaultTTL > 0 /\ k \in DOMAIN data /\ IsExpired(data[k], now))
            ~> (closed \/ k \notin DOMAIN data \/ ~IsExpired(data[k], now))

\* the sweeper removed both entries after they expired, the cache not closed
C34_Witness ==
    /\ defaultTTL > 0
    /\ ~closed
    /\ last.op = "cleanup"
    /\ last.n = 2
    /\ data = EmptyMap

\* k was purged from the store and the policy still tracks it
Stale(k) == k \in Range(order) /\ k \notin DOMAIN data

\* C35: as long as sets of new keys keep arriving, every key that an expiry
\* purge removed from the store while the policy kept it is dropped from the
\* policy (or stored again) in the end, with each built-in policy
C35_StaleKeysAreDropped ==
    \A k \in Keys3 : ([]<><<SetOfNewKey>>_vars) => (Stale(k) ~> ~Stale(k))

\* the set that completes in this step took the path of a new key and found
\* the store, after the purge of its own expired entry, at capacity or above
SetFindsFull ==
    /\ last'.op \in {"set", "set_with_ttl"}
    /\ last'.key \notin DOMAIN data \/ IsExpired(data[last'.key], now)
    /\ StorageSize(MapDelete(data, last'.key)) >= capacity

\* C38: after every operation and every sweeper tick each stored key is
\* tracked by the policy; and so, whenever set finds size() >= capacity,
\* evict() returns a victim
C38_StoreWithinPolicy ==
    /\ [](DOMAIN data \subseteq Range(order))
    /\ [][SetFindsFull =>
            /\ Len(last'.victims) = 1
            /\ last'.victims[1] \in Range(order)
            /\ last'.victims[1] \notin Range(order') \/ last'.victims[1] = last'.key]_vars

\* a set on a full store got a victim from the policy, here a key that a
\* purge had removed from the store: the store has outgrown the capacity
C38_Witness ==
    /\ last.op = "set"
    /\ Len(last.victims) = 1
    /\ StorageSize(data) > capacity
    /\ DOMAIN data \subseteq Range(order)

\* the set that completes in this step was called for a key whose entry was
\* stored and expired, on a store at capacity or above
SetOverExpired ==
    /\ last'.op \in {"set", "set_with_ttl"}
    /\ last'.key \in DOMAIN data
    /\ IsExpired(data[last'.key], now)
    /\ StorageSize(data) >= capacity

\* C39: a set on a full cache for a key k whose stored entry is expired drops
\* that entry first and evicts no other key: every live key other than k
\* stays stored and evictions is unchanged
C39_SetOverExpiredEvictsNothing ==
    [][SetOverExpired =>
        /\ evictions' = evictions
        /\ \A j \in DOMAIN data \ {last'.key} :
              ~IsExpired(data[j], now) => j \in DOMAIN data' /\ data'[j] = data[j]]_vars

\* C40: in a FIFO cache a key that expired, was purged and is set again is
\* ordered by its re-insertion: it is not evicted while a live key is stored
\* that was inserted before the re-insertion
C40_ReinsertedKeyKeepsItsTurn ==
    [][\A v \in Range(last'.victims) :
          (kind = "FIFO" /\ v \in DOMAIN data /\ usedAt[v] > bornAt[v]) =>
              \A j \in DOMAIN data :
                  ~IsExpired(data[j], now) => usedAt[j] >= usedAt[v]]_vars

\* the mutexes goroutine r holds, has announced itself on, or waits for
Mutexes(r) ==
    {m \in DOMAIN mu : \/ r \in mu[m].readers \cup mu[m].waiting
                       \/ mu[m].writer = r
                       \/ mu[m].pending = r}

\* C36: with thread_safe = true no goroutine blocks forever: every operation
\* that was started, the sweeper's tick included, returns, and a goroutine
\* that is in no operation holds no lock (cache.mu, memoryStorage.mu with
\* its RUnlock/Lock/Unlock/RLock inside Get, policy.mu) and waits for none.
C36_OperationsComplete ==
    /\ \A r \in Routines : (run[r].op # "none") ~> (run[r].op = "none")
    /\ [](\A r \in Routines : run[r].op = "none" => Mutexes(r) = {})

\* a get has given up its share of memoryStorage.mu and waits for the other
\* reader to leave, while a writer waits for cache.mu
C36_Witness ==
    \E r \in Threads :
        /\ run[r].op = "get"
        /\ Head(run[r].todo) = I("s", "LockWait", "a")
        /\ mu["s"].readers # {}
        /\ mu["c"].readers = Threads
        /\ mu["c"].pending # "none"

StoreWrites == {"purge", "set", "drop", "delete", "cleanup", "clear"}

PolicyWrites == {"access", "evict", "remove", "clear"}

\* goroutine r is about to change component m's map or list
Mutates(r, m) ==
    /\ run[r].op # "none"
    /\ Head(run[r].todo).m = m
    /\ Head(run[r].todo).i \in (IF m = "s" THEN StoreWrites ELSE PolicyWrites)

\* C37: with thread_safe = true every change of the store's map and every
\* change of the policy's list and key map is made by the one goroutine that
\* holds that component's mutex exclusively, so no two goroutines change the
\* same component at once, also when both hold cache.mu in shared mode.
C37_MutationsAreExclusive ==
    \A m \in {"s", "p"} :
        /\ \A r \in Routines :
               Mutates(r, m) => (mu[m].writer = r /\ mu[m].readers = {})
        /\ \A r1, r2 \in Routines : (Mutates(r1, m) /\ Mutates(r2, m)) => r1 = r2

\* a get_batch and a get share cache.mu; the first is about to move a key in
\* the list while the other is inside the store
C37_Witness ==
    /\ mu["c"].readers = Threads
    /\ Mutates("t1", "p")
    /\ run["t1"].op = "get_batch"
    /\ run["t2"].op = "get"
    /\ "t2" \in mu["s"].readers

=============================================================================
